---- MODULE Spec2Model ----
(***************************************************************************)
(* The play-session controller of ludo-spets: ludo.RunGame (engine thread  *)
(* and timer goroutine), the timerChan monitor of main, the web server's   *)
(* HandleTimeout and the websocket client's handleMessage.                 *)
(*                                                                         *)
(* Channels are FIFO buffers of the capacity main gives them.  A goroutine *)
(* is one process with a program counter; one action is one step between   *)
(* two channel operations or shared-variable accesses.  A time.After       *)
(* branch of a select is enabled only while the other branches are not     *)
(* ready, which is when Go lets the timer branch win.                      *)
(***************************************************************************)
EXTENDS Integers, Sequences, FiniteSets, TLC

(* ------------------------------ bounds -------------------------------- *)
\* number of sessions (LaunchGame calls) a run may start
MaxSessions == 1
\* number of extension payments the patrons make in a run
MaxPayments == 1
\* number of browser clients connected to the hub
NumClients == 1
\* number of extension payments in the runs of WideSpec
MaxPaymentsWide == 2
\* engine sessions in the runs of TwoSpec
MaxSessionsTwo == 2
\* extension payments in the runs of TwoSpec
MaxPaymentsTwo == 0
\* browser clients in the runs of PairSpec
NumClientsPair == 2
\* websocket connections in the runs of HubSpec
NumHubClients == 2
\* goroutines that call Server.SetState in the runs of HubSpec
NumCallers == 2
\* messages a client's send channel buffers in the runs of HubSpec
\* (make(chan []byte, 256) in serveWs, scaled down so that a buffer fills)
SendBuffer == 1

(* ------------------------- program constants -------------------------- *)
ChanCap == 10            \* make(chan int, 10), make(chan bool, 10)
SessionLoaded == -999    \* timerChan <- -999
PrepareTimeout == -2     \* timerChan <- -2
Timeout == -1            \* timerChan <- -1
PrepareAt == 10          \* remaining == 10
DefaultDuration == 60    \* remaining = 60
SecondsPerMinute == 2    \* minutes * 2
DefaultWidth == 800      \* width = 800
DefaultHeight == 600     \* height = 600

Sessions == 1..MaxSessions
Clients == 1..NumClients
\* minutes a patron buys: a short leg (never at 10) and a leg that passes 10
MinutesChoices == {1, 6}
\* minutes a patron buys in the runs of WideSpec
WideMinutes == {6}
\* the names of the games map that main passes to the server
Games == {"Nova", "Pixel Quest"}
\* payloads of a selectGame message: a string or not, and the name it carries
Payloads == [isString : BOOLEAN, name : {"Nova", "No Such Game"}]
\* minutes of a payment message as the JSON payload can carry them
RawMinutes == {0, 1}
\* the range of the time selection
MinMinutes == 1
MaxMinutes == 60
\* the sessions and the minutes a patron buys in the runs of TwoSpec
TwoSessions == 1..MaxSessionsTwo
\* the browser clients in the runs of PairSpec
PairClients == 1..NumClientsPair
ShortMinutes == {1}
\* the websocket connections and the callers of SetState in HubSpec
HubClients == 1..NumHubClients
Callers == 1..NumCallers
\* the states the callers of HubSpec set: HandleTimeout sets ExtendTime,
\* the handler of a confirmed payment sets GameActive
CallerStates == {"ExtendTime", "GameActive"}
\* minutes that make a leg of ten seconds
TenSecondMinutes == {5}
\* what xpos, ypos, width, height hold when vid or vid.Window is nil
NoWindow == <<0, 0, 0, 0>>
\* what vid.Window.GetPos and GetSize report: a window at the origin
Geometries == {<<0, 0, 4, 3>>}

VARIABLES
    timerChan,          \* main: timerChan, FIFO of [v, k, s]
    resumeChan,         \* main: resumeChan, FIFO of [v, p]
    rg,                 \* RunGame's position, per session
    durationSeconds,    \* RunGame's parameter, per session
    tk,                 \* the timer goroutine's locals and position
    doneChan,           \* per session: TRUE once closed
    gameExitedChan,     \* per session: TRUE once closed
    globalTimerOverlay, \* [remaining, visible]
    MenuActive,         \* state.MenuActive
    CoreRunning,        \* state.CoreRunning
    glfwInitialized,    \* glfwInitialized
    serverState,        \* Server.state
    gameLoadedChan,     \* Server.gameLoadedChan: number of values buffered
    gameWindow,         \* Server.gameWindowX/Y/Width/Height
    mon,                \* the monitor goroutine of main and its HandleTimeout
    cl,                 \* each client's handleMessage position
    payments,           \* extension payments accepted so far
    sent,               \* per session: what RunGame and its timer have sent
                        \* and how often RunGame has closed its two channels,
                        \* and whether its run loop ended in a recovered panic
    overlayWrites,      \* per session: parity of its overlay writes
    ev,                 \* the timer goroutine's last log line
    mu,                 \* globalTimerOverlay.mu: who holds it
    hub                 \* webui.Hub, its clients and the callers of SetState

chans == <<timerChan, resumeChan>>
engine == <<rg, durationSeconds, doneChan, gameExitedChan, CoreRunning, glfwInitialized>>
shared == <<globalTimerOverlay, MenuActive>>
front == <<serverState, gameLoadedChan, gameWindow, mon, cl, payments>>
ghost == <<sent, overlayWrites, ev>>
aside == <<mu, hub>>
\* what the hub and the callers of SetState leave alone
game == <<timerChan, resumeChan, rg, durationSeconds, tk, doneChan, gameExitedChan,
          globalTimerOverlay, MenuActive, CoreRunning, glfwInitialized,
          gameLoadedChan, gameWindow, mon, cl, payments, sent, overlayWrites, ev, mu>>
vars == <<timerChan, resumeChan, rg, durationSeconds, tk, doneChan, gameExitedChan,
          globalTimerOverlay, MenuActive, CoreRunning, glfwInitialized, serverState,
          gameLoadedChan, gameWindow, mon, cl, payments, sent, overlayWrites, ev,
          mu, hub>>

(* ----------------------------- messages ------------------------------- *)
\* a value on timerChan: v is the integer the channel carries; k and s say
\* who sent it and why (s is the session of a value RunGame or its timer
\* sent, and the payment of a value the front-end sent), and no receiver reads
\* them
Msg(v, k, s) == [v |-> v, k |-> k, s |-> s]

\* a value on resumeChan: v is the boolean the channel carries, p the payment
\* that sent it, which no receiver reads
Confirmation(p) == [v |-> TRUE, p |-> p]

\* the timer goroutine's last log line: what it did, the value it read from
\* a channel (m is the message read, with its sender) and remaining before
NoMsg == [v |-> 0, k |-> "none", s |-> 0]
NoEvent == [op |-> "none", s |-> 0, m |-> NoMsg, before |-> 0]
Event(op, s, m, before) == [op |-> op, s |-> s, m |-> m, before |-> before]

NoTimer == [pc |-> "none", remaining |-> 0, prepareTimeoutSent |-> FALSE,
            gamePaused |-> FALSE, geom |-> <<0, 0, 0, 0>>, why |-> "",
            legPrepares |-> 0, legAtTen |-> FALSE, confirmedBy |-> 0,
            paidBefore |-> 0]

IdleMonitor == [pc |-> "poll", x |-> 0, y |-> 0, width |-> 0, height |-> 0,
                timeoutFired |-> FALSE]

IdleClient == [pc |-> "idle", minutes |-> 0, payment |-> 0, confirmed |-> FALSE,
               selected |-> ""]

\* globalTimerOverlay.mu: the goroutine holding the write lock and the
\* goroutines holding a read lock
NoHolder == <<"none", 0>>
FreeLock == [w |-> NoHolder, r |-> {}]

\* newHub: no client, nothing on its channels; no connection served yet
IdleHub == [clients |-> {},
            run     |-> [pc |-> "select", message |-> "", todo |-> {}],
            send    |-> [c \in HubClients |-> <<>>],
            closed  |-> [c \in HubClients |-> FALSE],
            closes  |-> [c \in HubClients |-> 0],
            dropped |-> {},
            panicked |-> FALSE,
            reader  |-> [c \in HubClients |-> "none"],
            writer  |-> [c \in HubClients |-> "none"],
            seen    |-> [c \in HubClients |-> ""],
            call    |-> [k \in Callers |-> [pc |-> "idle", state |-> ""]]]

InitOf(S, C) ==
    /\ timerChan = <<>>
    /\ resumeChan = <<>>
    /\ rg = [s \in S |-> "idle"]
    /\ durationSeconds = [s \in S |-> 0]
    /\ tk = [s \in S |-> NoTimer]
    /\ doneChan = [s \in S |-> FALSE]
    /\ gameExitedChan = [s \in S |-> FALSE]
    /\ globalTimerOverlay = [remaining |-> 0, visible |-> FALSE]
    /\ MenuActive = FALSE
    /\ CoreRunning = FALSE
    /\ glfwInitialized = FALSE
    /\ serverState = "SelectGame"
    /\ gameLoadedChan = 0
    /\ gameWindow = <<0, 0, 0, 0>>
    /\ mon = IdleMonitor
    /\ cl = [c \in C |-> IdleClient]
    /\ payments = 0
    /\ sent = [s \in S |-> [loaded |-> 0, tickDriven |-> FALSE,
                                   doneCloses |-> 0, exitedCloses |-> 0,
                                   recovered |-> FALSE]]
    /\ overlayWrites = [s \in S |-> 0]
    /\ ev = NoEvent
    /\ mu = FreeLock
    /\ hub = IdleHub

InitFor(S) == InitOf(S, Clients)

Init == InitFor(Sessions)

(* ----------------------------- channels ------------------------------- *)
\* a send on a buffered channel proceeds when the buffer has room
HasRoom(ch) == Len(ch) < ChanCap

\* a receive proceeds when the buffer holds a value
Ready(ch) == Len(ch) > 0

(* ------------------------- ludo.RunGame (engine) ----------------------- *)
\* the overlay write of one session, under globalTimerOverlay.mu
WriteOverlayRemaining(s, r) ==
    /\ globalTimerOverlay' = [globalTimerOverlay EXCEPT !.remaining = r]
    /\ overlayWrites' = [overlayWrites EXCEPT ![s] = 1 - @]

\* a failed load that announces the session all the same
RunGameLoadFailsAnnounced(s) ==
    /\ rg[s] = "init"
    /\ HasRoom(timerChan)
    /\ timerChan' = Append(timerChan, Msg(SessionLoaded, "loaded", s))
    /\ sent' = [sent EXCEPT ![s].loaded = @ + 1]
    /\ rg' = [rg EXCEPT ![s] = "returned"]
    /\ glfwInitialized' = FALSE
    /\ serverState' = "SelectGame"
    /\ UNCHANGED <<aside, resumeChan, durationSeconds, tk, doneChan, gameExitedChan, shared,
                   CoreRunning, gameLoadedChan, gameWindow, mon, cl, payments,
                   overlayWrites, ev>>

\* Server.LaunchGame's goroutine calls RunGame: glfw.Init, then core.Load or
\* core.LoadGame fails; the deferred glfw.Terminate runs and LaunchGame goes
\* back to the game selection
RunGameLoadFails(s) ==
    /\ rg[s] = "init"
    /\ rg' = [rg EXCEPT ![s] = "returned"]
    /\ glfwInitialized' = FALSE
    /\ serverState' = "SelectGame"
    /\ UNCHANGED <<aside, chans, durationSeconds, tk, doneChan, gameExitedChan, shared,
                   CoreRunning, gameLoadedChan, gameWindow, mon, cl, payments, ghost>>

\* RunGame up to the overlay initialisation
RunGameLoad(s) ==
    /\ rg[s] = "init"
    /\ rg' = [rg EXCEPT ![s] = "sendLoaded"]
    /\ glfwInitialized' = TRUE
    /\ MenuActive' = FALSE
    /\ CoreRunning' = TRUE
    /\ globalTimerOverlay' = [remaining |-> durationSeconds[s], visible |-> TRUE]
    /\ overlayWrites' = [overlayWrites EXCEPT ![s] = 1 - @]
    /\ UNCHANGED <<aside, chans, durationSeconds, tk, doneChan, gameExitedChan, front, sent, ev>>

\* a RunGame that starts the timer goroutine without announcing the session
RunGameStartsTimerUnannounced(s) ==
    /\ rg[s] = "sendLoaded"
    /\ tk' = [tk EXCEPT ![s] = [NoTimer EXCEPT !.pc = "select",
                                               !.remaining = durationSeconds[s]]]
    /\ rg' = [rg EXCEPT ![s] = "runLoop"]
    /\ UNCHANGED <<aside, chans, durationSeconds, doneChan, gameExitedChan, shared,
                   CoreRunning, glfwInitialized, front, ghost>>

\* timerChan <- -999, then the two channels are made and the timer goroutine
\* is started
RunGameSendLoaded(s) ==
    /\ rg[s] = "sendLoaded"
    /\ HasRoom(timerChan)
    /\ timerChan' = Append(timerChan, Msg(SessionLoaded, "loaded", s))
    /\ sent' = [sent EXCEPT ![s].loaded = @ + 1]
    /\ tk' = [tk EXCEPT ![s] = [NoTimer EXCEPT !.pc = "select",
                                               !.remaining = durationSeconds[s]]]
    /\ rg' = [rg EXCEPT ![s] = "runLoop"]
    /\ UNCHANGED <<aside, resumeChan, durationSeconds, doneChan, gameExitedChan, shared,
                   CoreRunning, glfwInitialized, front, overlayWrites, ev>>

\* a frame loop whose panic is not recovered: the process dies
RunLoopPanicsUnrecovered(s) ==
    /\ rg[s] = "runLoop"
    /\ rg' = [rg EXCEPT ![s] = "crashed"]
    /\ sent' = [sent EXCEPT ![s].recovered = TRUE]
    /\ UNCHANGED <<aside, chans, durationSeconds, tk, doneChan, gameExitedChan, shared,
                   CoreRunning, glfwInitialized, front, overlayWrites, ev>>

\* runLoop panics: the deferred function of the protected call recovers and
\* logs the panic, the protected call returns and RunGame goes on to return nil
RunLoopPanics(s) ==
    /\ rg[s] = "runLoop"
    /\ rg' = [rg EXCEPT ![s] = "closeDone"]
    /\ sent' = [sent EXCEPT ![s].recovered = TRUE]
    /\ UNCHANGED <<aside, chans, durationSeconds, tk, doneChan, gameExitedChan, shared,
                   CoreRunning, glfwInitialized, front, overlayWrites, ev>>

\* runLoop ends: the window was closed
RunLoopExit(s) ==
    /\ rg[s] = "runLoop"
    /\ rg' = [rg EXCEPT ![s] = "closeDone"]
    /\ UNCHANGED <<aside, chans, durationSeconds, tk, doneChan, gameExitedChan, shared,
                   CoreRunning, glfwInitialized, front, ghost>>

\* the teardown defer: close(doneChan)
TeardownCloseDone(s) ==
    /\ rg[s] = "closeDone"
    /\ doneChan' = [doneChan EXCEPT ![s] = TRUE]
    /\ sent' = [sent EXCEPT ![s].doneCloses = @ + 1]
    /\ rg' = [rg EXCEPT ![s] = "closeExited"]
    /\ UNCHANGED <<aside, chans, durationSeconds, tk, gameExitedChan, shared,
                   CoreRunning, glfwInitialized, front, overlayWrites, ev>>

\* a teardown that closes doneChan a second time after its sleep
TeardownClosesDoneAgain(s) ==
    /\ rg[s] = "closeExited"
    /\ gameExitedChan' = [gameExitedChan EXCEPT ![s] = TRUE]
    /\ sent' = [sent EXCEPT ![s].doneCloses = @ + 1, ![s].exitedCloses = @ + 1]
    /\ CoreRunning' = FALSE
    /\ rg' = [rg EXCEPT ![s] = "terminate"]
    /\ UNCHANGED <<aside, chans, durationSeconds, tk, doneChan, shared,
                   glfwInitialized, front, overlayWrites, ev>>

\* the teardown defer after its sleep: close(gameExitedChan), core.Unload()
TeardownCloseExited(s) ==
    /\ rg[s] = "closeExited"
    /\ gameExitedChan' = [gameExitedChan EXCEPT ![s] = TRUE]
    /\ sent' = [sent EXCEPT ![s].exitedCloses = @ + 1]
    /\ CoreRunning' = FALSE
    /\ rg' = [rg EXCEPT ![s] = "terminate"]
    /\ UNCHANGED <<aside, chans, durationSeconds, tk, doneChan, shared,
                   glfwInitialized, front, overlayWrites, ev>>

\* the defer registered after glfw.Init: glfw.Terminate, setGLFWInitialized(false);
\* RunGame returns nil
GlfwTerminate(s) ==
    /\ rg[s] = "terminate"
    /\ glfwInitialized' = FALSE
    /\ rg' = [rg EXCEPT ![s] = "waitLoaded"]
    /\ UNCHANGED <<aside, chans, durationSeconds, tk, doneChan, gameExitedChan, shared,
                   CoreRunning, front, ghost>>

\* LaunchGame's goroutine after RunGame returned nil: it takes the game-loaded
\* confirmation, or gives up after ten seconds without one
LaunchGameAfterRun(s) ==
    /\ rg[s] = "waitLoaded"
    /\ gameLoadedChan' = 0
    /\ rg' = [rg EXCEPT ![s] = "returned"]
    /\ UNCHANGED <<aside, chans, durationSeconds, tk, doneChan, gameExitedChan, shared,
                   CoreRunning, glfwInitialized, serverState, gameWindow, mon, cl,
                   payments, ghost>>

(* ------------------- ludo.RunGame: the timer goroutine ----------------- *)
\* a return statement that does not end the goroutine
TimerExitIgnored(s, why) ==
    tk' = [tk EXCEPT ![s].why = why]

\* the goroutine returns; why says through which return statement
TimerExit(s, why) ==
    tk' = [tk EXCEPT ![s].pc = "exited", ![s].why = why]

\* outer select, case <-doneChan
TimerDone(s) ==
    /\ tk[s].pc = "select"
    /\ doneChan[s]
    /\ TimerExit(s, "done")
    /\ ev' = Event("done", s, NoMsg, 0)
    /\ UNCHANGED <<aside, chans, engine, shared, front, sent, overlayWrites>>

\* outer select, case <-gameExitedChan
TimerGameExited(s) ==
    /\ tk[s].pc = "select"
    /\ gameExitedChan[s]
    /\ TimerExit(s, "gameExited")
    /\ ev' = Event("gameExited", s, NoMsg, 0)
    /\ UNCHANGED <<aside, chans, engine, shared, front, sent, overlayWrites>>

\* where a tick goes after the decrement: the prepare-timeout send, the
\* expiry, or back to the select
AfterTick(t) ==
    IF t.remaining = PrepareAt /\ ~t.prepareTimeoutSent THEN "sendPrepare"
    ELSE IF t.remaining <= 0 THEN "expired"
    ELSE "select"

\* outer select, case <-ticker.C: a paused timer skips the tick, otherwise
\* remaining-- and the overlay write
TimerTick(s) ==
    /\ tk[s].pc = "select"
    /\ IF tk[s].gamePaused
       THEN /\ UNCHANGED <<tk, shared, overlayWrites>>
       ELSE LET r == tk[s].remaining - 1
                t == [tk[s] EXCEPT !.remaining = r,
                                   !.legAtTen = @ \/ r = PrepareAt]
            IN /\ tk' = [tk EXCEPT ![s] = [t EXCEPT !.pc = AfterTick(t)]]
               /\ WriteOverlayRemaining(s, r)
               /\ UNCHANGED MenuActive
    /\ ev' = Event("tick", s, NoMsg, 0)
    /\ UNCHANGED <<aside, chans, engine, front, sent>>

\* timerChan <- -2; prepareTimeoutSent = true; then the remaining <= 0 test
TimerSendPrepare(s) ==
    /\ tk[s].pc = "sendPrepare"
    /\ HasRoom(timerChan)
    /\ timerChan' = Append(timerChan, Msg(PrepareTimeout, "prepare", s))
    /\ sent' = [sent EXCEPT ![s].tickDriven = TRUE]
    /\ tk' = [tk EXCEPT ![s].prepareTimeoutSent = TRUE,
                        ![s].legPrepares = @ + 1,
                        ![s].pc = IF tk[s].remaining <= 0 THEN "expired" ELSE "select"]
    /\ ev' = Event("prepare", s, NoMsg, 0)
    /\ UNCHANGED <<aside, resumeChan, engine, shared, front, overlayWrites>>

\* remaining <= 0: the goroutine returns when GLFW is terminated
TimerExpiredGlfwGone(s) ==
    /\ tk[s].pc = "expired"
    /\ ~glfwInitialized
    /\ TimerExit(s, "glfw")
    /\ ev' = Event("glfw", s, NoMsg, 0)
    /\ UNCHANGED <<aside, chans, engine, shared, front, sent, overlayWrites>>

\* remaining <= 0 with GLFW initialised: the window's position and size are
\* read and are one of geoms
TimerQueryWindowOf(s, geoms) ==
    /\ tk[s].pc = "expired"
    /\ glfwInitialized
    /\ \E g \in geoms :
          tk' = [tk EXCEPT ![s].geom = g, ![s].paidBefore = payments,
                           ![s].pc = "sendTimeout"]
    /\ ev' = Event("expired", s, NoMsg, 0)
    /\ UNCHANGED <<aside, chans, engine, shared, front, sent, overlayWrites>>

\* an expiry that goes straight to the geometry, without the sentinel
TimerQueryWindowSkipsSentinel(s) ==
    /\ tk[s].pc = "expired"
    /\ glfwInitialized
    /\ \E g \in Geometries :
          tk' = [tk EXCEPT ![s].geom = g, ![s].paidBefore = payments,
                           ![s].pc = "sendGeom1"]
    /\ ev' = Event("expired", s, NoMsg, 0)
    /\ UNCHANGED <<aside, chans, engine, shared, front, sent, overlayWrites>>

\* remaining <= 0 with GLFW initialised: the window's position and size are
\* read (zeros when there is no window)
TimerQueryWindow(s) ==
    /\ tk[s].pc = "expired"
    /\ glfwInitialized
    /\ \E g \in Geometries :
          tk' = [tk EXCEPT ![s].geom = g, ![s].paidBefore = payments,
                           ![s].pc = "sendTimeout"]
    /\ ev' = Event("expired", s, NoMsg, 0)
    /\ UNCHANGED <<aside, chans, engine, shared, front, sent, overlayWrites>>

\* remaining <= 0, the test alone: isGLFWInitialized() returns true (it takes
\* and releases glfwMutex) and the goroutine goes on to the window
TimerCheckGlfw(s) ==
    /\ tk[s].pc = "expired"
    /\ glfwInitialized
    /\ tk' = [tk EXCEPT ![s].pc = "queryWindow"]
    /\ UNCHANGED <<aside, chans, engine, shared, front, ghost>>

\* vid.Window.GetPos and GetSize after the test.  On a window that
\* glfw.Terminate has destroyed the calls have no defined result: they give
\* some position and size, or the binding panics and the goroutine ends.
TimerAccessWindow(s) ==
    /\ tk[s].pc = "queryWindow"
    /\ \/ \E g \in IF glfwInitialized THEN Geometries ELSE Geometries \cup {NoWindow} :
             tk' = [tk EXCEPT ![s].geom = g, ![s].paidBefore = payments,
                              ![s].pc = "sendTimeout"]
       \/ /\ ~glfwInitialized
          /\ TimerExit(s, "panic")
    /\ ev' = Event("expired", s, NoMsg, 0)
    /\ UNCHANGED <<aside, chans, engine, shared, front, sent, overlayWrites>>

\* timerChan <- -1
TimerSendTimeout(s) ==
    /\ tk[s].pc = "sendTimeout"
    /\ HasRoom(timerChan)
    /\ timerChan' = Append(timerChan, Msg(Timeout, "timeout", s))
    /\ sent' = [sent EXCEPT ![s].tickDriven = TRUE]
    /\ tk' = [tk EXCEPT ![s].pc = "sendGeom1"]
    /\ ev' = Event("timeout", s, NoMsg, 0)
    /\ UNCHANGED <<aside, resumeChan, engine, shared, front, overlayWrites>>

\* timerChan <- xpos, ypos, width: one send each
TimerSendGeometry(s, i) ==
    /\ tk[s].pc = <<"sendGeom1", "sendGeom2", "sendGeom3">>[i]
    /\ HasRoom(timerChan)
    /\ timerChan' = Append(timerChan, Msg(tk[s].geom[i], <<"x", "y", "width">>[i], s))
    /\ tk' = [tk EXCEPT ![s].pc = <<"sendGeom2", "sendGeom3", "sendGeom4">>[i]]
    /\ ev' = Event("geometry", s, NoMsg, 0)
    /\ UNCHANGED <<aside, resumeChan, engine, shared, front, sent, overlayWrites>>

\* timerChan <- height; state.MenuActive = true; gamePaused = true; the
\* goroutine then waits for the resume signal
TimerSendHeightAndPause(s) ==
    /\ tk[s].pc = "sendGeom4"
    /\ HasRoom(timerChan)
    /\ timerChan' = Append(timerChan, Msg(tk[s].geom[4], "height", s))
    /\ MenuActive' = TRUE
    /\ tk' = [tk EXCEPT ![s].gamePaused = TRUE, ![s].geom = NoTimer.geom,
                        ![s].pc = "awaitResume"]
    /\ ev' = Event("paused", s, NoMsg, 0)
    /\ UNCHANGED <<aside, resumeChan, engine, globalTimerOverlay, front, sent, overlayWrites>>

\* the wait for the resume signal, case resumeReceived := <-resumeChan: the
\* goroutine returns when GLFW is terminated, otherwise it waits for the new
\* duration
TimerResumeReceived(s) ==
    /\ tk[s].pc = "awaitResume"
    /\ Ready(resumeChan)
    /\ resumeChan' = Tail(resumeChan)
    /\ IF glfwInitialized
       THEN tk' = [tk EXCEPT ![s].pc = "awaitDuration",
                             ![s].confirmedBy = Head(resumeChan).p]
       ELSE TimerExit(s, "glfw")
    /\ ev' = Event("resume", s, NoMsg, tk[s].remaining)
    /\ UNCHANGED <<aside, timerChan, engine, shared, front, sent, overlayWrites>>

\* a 30-second branch that waits again instead of returning
TimerResumeTimeoutRetries(s) ==
    /\ tk[s].pc = "awaitResume"
    /\ ~Ready(resumeChan)
    /\ ~doneChan[s]
    /\ ev' = Event("abandoned", s, NoMsg, tk[s].remaining)
    /\ UNCHANGED <<aside, chans, engine, tk, shared, front, sent, overlayWrites>>

\* a 30-second branch that gives the default time and goes on counting
TimerResumeTimeoutThenCounts(s) ==
    /\ tk[s].pc = "awaitResume"
    /\ ~Ready(resumeChan)
    /\ ~doneChan[s]
    /\ tk' = [tk EXCEPT ![s].why = "abandoned",
                        ![s].remaining = DefaultDuration,
                        ![s].gamePaused = FALSE,
                        ![s].pc = "select"]
    /\ ev' = Event("abandoned", s, NoMsg, tk[s].remaining)
    /\ UNCHANGED <<aside, chans, engine, shared, front, sent, overlayWrites>>

\* the wait for the resume signal, case <-time.After(30 * time.Second)
TimerResumeTimeout(s) ==
    /\ tk[s].pc = "awaitResume"
    /\ ~Ready(resumeChan)
    /\ ~doneChan[s]
    /\ TimerExit(s, "abandoned")
    /\ ev' = Event("abandoned", s, NoMsg, tk[s].remaining)
    /\ UNCHANGED <<aside, chans, engine, shared, front, sent, overlayWrites>>

\* the wait for the resume signal, case <-doneChan
TimerDoneAwaitingResume(s) ==
    /\ tk[s].pc = "awaitResume"
    /\ doneChan[s]
    /\ TimerExit(s, "done")
    /\ ev' = Event("done", s, NoMsg, 0)
    /\ UNCHANGED <<aside, chans, engine, shared, front, sent, overlayWrites>>

\* a new-duration branch that resumes the engine and leaves the timer paused
TimerNewDurationStaysPaused(s) ==
    /\ tk[s].pc = "awaitDuration"
    /\ Ready(timerChan)
    /\ LET m == Head(timerChan)
       IN /\ timerChan' = Tail(timerChan)
          /\ tk' = [tk EXCEPT ![s].remaining = m.v,
                              ![s].prepareTimeoutSent = FALSE,
                              ![s].legPrepares = 0,
                              ![s].legAtTen = FALSE,
                              ![s].confirmedBy = 0,
                              ![s].paidBefore = 0,
                              ![s].pc = "select"]
          /\ WriteOverlayRemaining(s, m.v)
          /\ MenuActive' = FALSE
          /\ ev' = Event("newDuration", s, m, tk[s].remaining)
    /\ UNCHANGED <<aside, resumeChan, engine, front, sent>>

\* a new-duration branch that takes the value off the channel and uses the
\* default instead
TimerNewDurationIgnoresValue(s) ==
    /\ tk[s].pc = "awaitDuration"
    /\ Ready(timerChan)
    /\ LET m == Head(timerChan)
       IN /\ timerChan' = Tail(timerChan)
          /\ tk' = [tk EXCEPT ![s].remaining = DefaultDuration,
                              ![s].prepareTimeoutSent = FALSE,
                              ![s].gamePaused = FALSE,
                              ![s].legPrepares = 0,
                              ![s].legAtTen = FALSE,
                              ![s].confirmedBy = 0,
                              ![s].paidBefore = 0,
                              ![s].pc = "select"]
          /\ WriteOverlayRemaining(s, DefaultDuration)
          /\ MenuActive' = FALSE
          /\ ev' = Event("newDuration", s, m, tk[s].remaining)
    /\ UNCHANGED <<aside, resumeChan, engine, front, sent>>

\* the wait for the new duration, case newDuration := <-timerChan
TimerNewDuration(s) ==
    /\ tk[s].pc = "awaitDuration"
    /\ Ready(timerChan)
    /\ LET m == Head(timerChan)
       IN /\ timerChan' = Tail(timerChan)
          /\ tk' = [tk EXCEPT ![s].remaining = m.v,
                              ![s].prepareTimeoutSent = FALSE,
                              ![s].gamePaused = FALSE,
                              ![s].legPrepares = 0,
                              ![s].legAtTen = FALSE,
                              ![s].confirmedBy = 0,
                              ![s].paidBefore = 0,
                              ![s].pc = "select"]
          /\ WriteOverlayRemaining(s, m.v)
          /\ MenuActive' = FALSE
          /\ ev' = Event("newDuration", s, m, tk[s].remaining)
    /\ UNCHANGED <<aside, resumeChan, engine, front, sent>>

\* a 5-second branch that sets the default but leaves the timer paused
TimerDurationTimeoutStaysPaused(s) ==
    /\ tk[s].pc = "awaitDuration"
    /\ ~Ready(timerChan)
    /\ tk' = [tk EXCEPT ![s].remaining = DefaultDuration,
                        ![s].legPrepares = 0,
                        ![s].legAtTen = FALSE,
                        ![s].confirmedBy = 0,
                        ![s].paidBefore = 0,
                        ![s].pc = "select"]
    /\ ev' = Event("default", s, NoMsg, tk[s].remaining)
    /\ UNCHANGED <<aside, chans, engine, shared, front, sent, overlayWrites>>

\* the wait for the new duration, case <-time.After(5 * time.Second)
TimerDurationTimeout(s) ==
    /\ tk[s].pc = "awaitDuration"
    /\ ~Ready(timerChan)
    /\ tk' = [tk EXCEPT ![s].remaining = DefaultDuration,
                        ![s].gamePaused = FALSE,
                        ![s].legPrepares = 0,
                        ![s].legAtTen = FALSE,
                        ![s].confirmedBy = 0,
                        ![s].paidBefore = 0,
                        ![s].pc = "select"]
    /\ ev' = Event("default", s, NoMsg, tk[s].remaining)
    /\ UNCHANGED <<aside, chans, engine, shared, front, sent, overlayWrites>>

\* an outer select that replaces remaining by the value read
TimerAddTimeReplaces(s) ==
    /\ tk[s].pc = "select"
    /\ Ready(timerChan)
    /\ LET m == Head(timerChan)
       IN /\ timerChan' = Tail(timerChan)
          /\ IF m.v > 0
             THEN /\ tk' = [tk EXCEPT ![s].remaining = m.v]
                  /\ WriteOverlayRemaining(s, m.v)
             ELSE UNCHANGED <<tk, globalTimerOverlay, overlayWrites>>
          /\ ev' = Event("addTime", s, m, tk[s].remaining)
    /\ UNCHANGED <<aside, resumeChan, engine, MenuActive, front, sent>>

\* outer select, case newDuration := <-timerChan: a positive value is added
\* to remaining, any other value is dropped
TimerAddTime(s) ==
    /\ tk[s].pc = "select"
    /\ Ready(timerChan)
    /\ LET m == Head(timerChan)
       IN /\ timerChan' = Tail(timerChan)
          /\ IF m.v > 0
             THEN /\ tk' = [tk EXCEPT ![s].remaining = @ + m.v]
                  /\ WriteOverlayRemaining(s, tk[s].remaining + m.v)
             ELSE UNCHANGED <<tk, globalTimerOverlay, overlayWrites>>
          /\ ev' = Event("addTime", s, m, tk[s].remaining)
    /\ UNCHANGED <<aside, resumeChan, engine, MenuActive, front, sent>>

(* ------------------ main: the monitor of timerChan --------------------- *)
\* Server.OnGameLoaded: a non-blocking send on gameLoadedChan (capacity 1)
OnGameLoaded == gameLoadedChan' = 1

\* one pass of the ticker loop that finds a value on timerChan: -1 starts
\* HandleTimeout, -999 calls OnGameLoaded, any other value is dropped.  (A
\* pass that finds nothing changes nothing.)
MonitorReceive ==
    /\ mon.pc = "poll"
    /\ Ready(timerChan)
    /\ LET signal == Head(timerChan).v
       IN /\ timerChan' = Tail(timerChan)
          /\ mon' = IF signal = Timeout THEN [IdleMonitor EXCEPT !.pc = "read1"]
                                       ELSE mon
          /\ IF signal = SessionLoaded THEN OnGameLoaded
                                       ELSE UNCHANGED gameLoadedChan
    /\ UNCHANGED <<aside, resumeChan, engine, tk, shared, serverState, gameWindow, cl,
                   payments, ghost>>

(* --------------------- webui: Server.HandleTimeout --------------------- *)
ReadPc(i) == <<"read1", "read2", "read3", "read4">>[i]
NextReadPc(i) == <<"read2", "read3", "read4", "store">>[i]

\* x, y, width, height in the order HandleTimeout reads them
SetGeometryField(m, i, v) ==
    CASE i = 1 -> [m EXCEPT !.x = v]
      [] i = 2 -> [m EXCEPT !.y = v]
      [] i = 3 -> [m EXCEPT !.width = v]
      [] i = 4 -> [m EXCEPT !.height = v]

\* the value HandleTimeout substitutes when its deadline passes
GeometryDefault(i) == <<0, 0, DefaultWidth, DefaultHeight>>[i]

\* select, case x = <-s.timerChan (and the same for y, width, height)
HandleTimeoutRead(i) ==
    /\ mon.pc = ReadPc(i)
    /\ Ready(timerChan)
    /\ timerChan' = Tail(timerChan)
    /\ mon' = [SetGeometryField(mon, i, Head(timerChan).v) EXCEPT !.pc = NextReadPc(i)]
    /\ UNCHANGED <<aside, resumeChan, engine, tk, shared, serverState, gameLoadedChan,
                   gameWindow, cl, payments, ghost>>

\* select, case <-timeout: the one channel time.After(100 ms) made delivers
\* one value, so this branch is taken at most once in a call
HandleTimeoutDeadline(i) ==
    /\ mon.pc = ReadPc(i)
    /\ ~Ready(timerChan)
    /\ ~mon.timeoutFired
    /\ mon' = [SetGeometryField(mon, i, GeometryDefault(i))
                  EXCEPT !.pc = NextReadPc(i), !.timeoutFired = TRUE]
    /\ UNCHANGED <<aside, chans, engine, tk, shared, serverState, gameLoadedChan,
                   gameWindow, cl, payments, ghost>>

\* a HandleTimeout that leaves the state of a front-end that is not playing
HandleTimeoutStoreWhilePlaying ==
    /\ mon.pc = "store"
    /\ gameWindow' = <<mon.x, mon.y, mon.width, mon.height>>
    /\ serverState' = IF serverState \in {"GameLoading", "GameActive"}
                      THEN "ExtendTime" ELSE serverState
    /\ mon' = IdleMonitor
    /\ UNCHANGED <<aside, chans, engine, tk, shared, gameLoadedChan, cl, payments, ghost>>

\* the window information is stored, the browser launched and the state set
\* to ExtendTime; the monitor goes back to its loop
HandleTimeoutStore ==
    /\ mon.pc = "store"
    /\ gameWindow' = <<mon.x, mon.y, mon.width, mon.height>>
    /\ serverState' = "ExtendTime"
    /\ mon' = IdleMonitor
    /\ UNCHANGED <<aside, chans, engine, tk, shared, gameLoadedChan, cl, payments, ghost>>

(* -------------------- webui: Client.handleMessage ---------------------- *)
\* sessions RunGame has not been called for
FreeSessions == {s \in DOMAIN rg : rg[s] = "idle"}
Launching == {c \in DOMAIN cl : cl[c].pc = "launch"}

\* "selectGame" with a game name, in StateSelectGame
SelectGame(c) ==
    /\ cl[c].pc = "idle"
    /\ serverState = "SelectGame"
    /\ serverState' = "TimeSelect"
    /\ UNCHANGED <<aside, chans, engine, tk, shared, gameLoadedChan, gameWindow, mon, cl,
                   payments, ghost>>

\* "selectGame" with its payload, in StateSelectGame: a payload that is a
\* string is logged as the game selected and the state is set to TimeSelect
SelectGameMessage(c, payload) ==
    /\ cl[c].pc = "idle"
    /\ serverState = "SelectGame"
    /\ payload.isString
    /\ serverState' = "TimeSelect"
    /\ cl' = [cl EXCEPT ![c].selected = payload.name]
    /\ UNCHANGED <<aside, chans, engine, tk, shared, gameLoadedChan, gameWindow, mon,
                   payments, ghost>>

\* "selectTime": TimeSelect -> Payment, ExtendTime -> ExtendPayment
SelectTime(c) ==
    /\ cl[c].pc = "idle"
    /\ serverState \in {"TimeSelect", "ExtendTime"}
    /\ serverState' = IF serverState = "TimeSelect" THEN "Payment" ELSE "ExtendPayment"
    /\ UNCHANGED <<aside, chans, engine, tk, shared, gameLoadedChan, gameWindow, mon, cl,
                   payments, ghost>>

\* "payment" with its minutes: the state read decides between the launch and
\* the extension; in any other state the message is ignored.  A run accepts
\* at most `most` extension payments.
PaymentWithin(c, minutes, most) ==
    /\ cl[c].pc = "idle"
    /\ \/ /\ serverState = "Payment"
          /\ Cardinality(FreeSessions) > Cardinality(Launching)
          /\ cl' = [cl EXCEPT ![c] = [IdleClient EXCEPT !.pc = "launch",
                                                         !.minutes = minutes]]
          /\ UNCHANGED payments
       \/ /\ serverState \in {"ExtendPayment", "ExtendTime"}
          /\ payments < most
          /\ cl' = [cl EXCEPT ![c] = [IdleClient EXCEPT !.pc = "sendResume",
                                                         !.minutes = minutes,
                                                         !.payment = payments + 1]]
          /\ payments' = payments + 1
    /\ UNCHANGED <<aside, chans, engine, tk, shared, serverState, gameLoadedChan, gameWindow,
                   mon, ghost>>

\* a handler that takes an extension payment in whatever state it finds
PaymentInAnyState(c, minutes) ==
    /\ cl[c].pc = "idle"
    /\ serverState # "Payment"
    /\ payments < MaxPayments
    /\ cl' = [cl EXCEPT ![c] = [IdleClient EXCEPT !.pc = "sendResume",
                                                   !.minutes = minutes,
                                                   !.payment = payments + 1]]
    /\ payments' = payments + 1
    /\ UNCHANGED <<aside, chans, engine, tk, shared, serverState, gameLoadedChan, gameWindow,
                   mon, ghost>>

Payment(c, minutes) == PaymentWithin(c, minutes, MaxPayments)

\* a client's handleMessage is between the test of the state and its return
Handling(c) == cl[c].pc \in {"sendResume", "sendDuration", "setActive"}

\* "payment" from a browser client while the payment of another client is
\* being handled
PaymentBeside(c, minutes) ==
    /\ \E d \in DOMAIN cl \ {c} : Handling(d)
    /\ PaymentWithin(c, minutes, MaxPaymentsWide)

\* Server.LaunchGame: the state is set to GameLoading and a goroutine calls
\* RunGame with minutes * 2 seconds
LaunchGame(c) ==
    /\ cl[c].pc = "launch"
    /\ LET s == CHOOSE x \in FreeSessions : \A y \in FreeSessions : x <= y
       IN /\ rg' = [rg EXCEPT ![s] = "init"]
          /\ durationSeconds' = [durationSeconds EXCEPT
                                    ![s] = cl[c].minutes * SecondsPerMinute]
    /\ serverState' = "GameLoading"
    /\ cl' = [cl EXCEPT ![c] = IdleClient]
    /\ UNCHANGED <<aside, chans, tk, doneChan, gameExitedChan, CoreRunning, glfwInitialized,
                   shared, gameLoadedChan, gameWindow, mon, payments, ghost>>

\* select { case resumeChan <- true; case <-time.After(500 ms) }: the value
\* is sent when the buffer has room, and is given up when it stayed full
SendResume(c) ==
    /\ cl[c].pc = "sendResume"
    /\ resumeChan' = IF HasRoom(resumeChan)
                     THEN Append(resumeChan, Confirmation(cl[c].payment))
                     ELSE resumeChan
    /\ cl' = [cl EXCEPT ![c].pc = "sendDuration",
                        ![c].confirmed = HasRoom(resumeChan)]
    /\ UNCHANGED <<aside, timerChan, engine, tk, shared, serverState, gameLoadedChan,
                   gameWindow, mon, payments, ghost>>

\* select { case timerChan <- newDurationSecs; case <-time.After(500 ms) }
SendDuration(c) ==
    /\ cl[c].pc = "sendDuration"
    /\ timerChan' = IF HasRoom(timerChan)
                    THEN Append(timerChan,
                                Msg(cl[c].minutes * SecondsPerMinute, "duration",
                                    cl[c].payment))
                    ELSE timerChan
    /\ cl' = [cl EXCEPT ![c].pc = "setActive"]
    /\ UNCHANGED <<aside, resumeChan, engine, tk, shared, serverState, gameLoadedChan,
                   gameWindow, mon, payments, ghost>>

\* SetState(StateGameActive) at the end of the extension payment
SetGameActive(c) ==
    /\ cl[c].pc = "setActive"
    /\ serverState' = "GameActive"
    /\ cl' = [cl EXCEPT ![c] = IdleClient]
    /\ UNCHANGED <<aside, chans, engine, tk, shared, gameLoadedChan, gameWindow, mon,
                   payments, ghost>>

\* "quit" in StateExtendTime
Quit(c) ==
    /\ cl[c].pc = "idle"
    /\ serverState = "ExtendTime"
    /\ serverState' = "SelectGame"
    /\ UNCHANGED <<aside, chans, engine, tk, shared, gameLoadedChan, gameWindow, mon, cl,
                   payments, ghost>>

(* ------------------------------ webui: Hub ----------------------------- *)
\* hub.clients is h.clients; hub.run is the position of Hub.run (at its select,
\* or ranging over the clients with a message); hub.send[c] is the buffer of
\* client.send, hub.closed[c] says the channel was closed and hub.closes[c]
\* counts the close calls; hub.dropped holds the clients the hub dropped for a
\* full buffer; hub.panicked says a send or a close hit a closed channel;
\* hub.reader[c] and hub.writer[c] are the positions of readPump and writePump;
\* hub.seen[c] is the last state message writePump wrote to the connection;
\* hub.call[k] is the position of a goroutine inside SetState.

\* serveWs: the new client goes to the hub on the unbuffered register channel;
\* Hub.run, at its select, adds it to the map and sends it the current state
\* (sendStateToClient, a blocking send on client.send); the pumps start
HubRegister(c) ==
    /\ hub.reader[c] = "none"
    /\ hub.run.pc = "select"
    /\ Len(hub.send[c]) < SendBuffer
    /\ hub' = [hub EXCEPT !.clients = @ \cup {c},
                          !.send[c] = Append(@, serverState),
                          !.reader[c] = "running",
                          !.writer[c] = "running"]
    /\ UNCHANGED <<serverState, game>>

\* readPump: ReadMessage fails (the browser went away, or writePump closed the
\* connection) and the deferred function runs
ReadPumpFails(c) ==
    /\ hub.reader[c] = "running"
    /\ hub' = [hub EXCEPT !.reader[c] = "unregister"]
    /\ UNCHANGED <<serverState, game>>

\* the deferred send of readPump on the unbuffered unregister channel meets
\* Hub.run at its select: a client still in the map is deleted and its send
\* channel closed, any other client is left alone
HubUnregister(c) ==
    /\ hub.reader[c] = "unregister"
    /\ hub.run.pc = "select"
    /\ hub' = IF c \in hub.clients
              THEN [hub EXCEPT !.clients = @ \ {c},
                               !.closed[c] = TRUE,
                               !.closes[c] = @ + 1,
                               !.panicked = @ \/ hub.closed[c],
                               !.reader[c] = "done"]
              ELSE [hub EXCEPT !.reader[c] = "done"]
    /\ UNCHANGED <<serverState, game>>

\* SetState: the state is stored under the server's lock
SetStateStore(k, state) ==
    /\ hub.call[k].pc = "idle"
    /\ serverState' = state
    /\ hub' = [hub EXCEPT !.call[k] = [pc |-> "read", state |-> ""]]
    /\ UNCHANGED game

\* broadcastState: the state is read back with GetState after the lock was
\* released
BroadcastStateRead(k) ==
    /\ hub.call[k].pc = "read"
    /\ hub' = [hub EXCEPT !.call[k] = [pc |-> "send", state |-> serverState]]
    /\ UNCHANGED <<serverState, game>>

\* broadcastState: the send on the unbuffered broadcast channel meets Hub.run
\* at its select, which starts to range over the clients
HubBroadcast(k) ==
    /\ hub.call[k].pc = "send"
    /\ hub.run.pc = "select"
    /\ hub' = [hub EXCEPT !.call[k] = [pc |-> "idle", state |-> ""],
                          !.run = IF hub.clients = {}
                                  THEN [pc |-> "select", message |-> "", todo |-> {}]
                                  ELSE [pc |-> "range", message |-> hub.call[k].state,
                                        todo |-> hub.clients]]
    /\ UNCHANGED <<serverState, game>>

\* Hub.run back at its select once the range is over
AfterClient(c) ==
    IF hub.run.todo = {c}
    THEN [pc |-> "select", message |-> "", todo |-> {}]
    ELSE [hub.run EXCEPT !.todo = @ \ {c}]

\* a drop that closes the send channel and leaves the client in the map
HubDeliverKeepsClient(c) ==
    /\ hub.run.pc = "range"
    /\ c \in hub.run.todo
    /\ hub' = IF hub.closed[c]
              THEN [hub EXCEPT !.panicked = TRUE, !.run = AfterClient(c)]
              ELSE IF Len(hub.send[c]) < SendBuffer
              THEN [hub EXCEPT !.send[c] = Append(@, hub.run.message),
                               !.run = AfterClient(c)]
              ELSE [hub EXCEPT !.closed[c] = TRUE,
                               !.closes[c] = @ + 1,
                               !.dropped = @ \cup {c},
                               !.run = AfterClient(c)]
    /\ UNCHANGED <<serverState, game>>

\* Hub.run, one client of the range: the message goes into client.send when
\* the buffer has room; otherwise the channel is closed and the client deleted
\* from the map.  A send on a closed channel would panic.
HubDeliver(c) ==
    /\ hub.run.pc = "range"
    /\ c \in hub.run.todo
    /\ hub' = IF hub.closed[c]
              THEN [hub EXCEPT !.panicked = TRUE, !.run = AfterClient(c)]
              ELSE IF Len(hub.send[c]) < SendBuffer
              THEN [hub EXCEPT !.send[c] = Append(@, hub.run.message),
                               !.run = AfterClient(c)]
              ELSE [hub EXCEPT !.closed[c] = TRUE,
                               !.closes[c] = @ + 1,
                               !.clients = @ \ {c},
                               !.dropped = @ \cup {c},
                               !.run = AfterClient(c)]
    /\ UNCHANGED <<serverState, game>>

\* writePump: a message received from client.send is written to the connection
WritePumpWrite(c) ==
    /\ hub.writer[c] = "running"
    /\ hub.send[c] # <<>>
    /\ hub' = [hub EXCEPT !.seen[c] = Head(hub.send[c]),
                          !.send[c] = Tail(@)]
    /\ UNCHANGED <<serverState, game>>

\* writePump: the receive reports the channel closed and drained; the close
\* message is written and the pump returns
WritePumpClosed(c) ==
    /\ hub.writer[c] = "running"
    /\ hub.send[c] = <<>>
    /\ hub.closed[c]
    /\ hub' = [hub EXCEPT !.writer[c] = "done"]
    /\ UNCHANGED <<serverState, game>>

\* writePump: a write to the connection fails and the pump returns
WritePumpFails(c) ==
    /\ hub.writer[c] = "running"
    /\ hub' = [hub EXCEPT !.writer[c] = "done"]
    /\ UNCHANGED <<serverState, game>>

\* the hub, its connections and the callers of SetState on their own
NextHub ==
    \/ \E c \in HubClients :
          \/ HubRegister(c)
          \/ ReadPumpFails(c)
          \/ HubUnregister(c)
          \/ HubDeliver(c)
          \/ WritePumpWrite(c)
          \/ WritePumpClosed(c)
          \/ WritePumpFails(c)
    \/ \E k \in Callers :
          \/ \E state \in CallerStates : SetStateStore(k, state)
          \/ BroadcastStateRead(k)
          \/ HubBroadcast(k)

HubSpec == Init /\ [][NextHub]_vars

(* --------------------------- specification ---------------------------- *)
Engine(s) ==
    \/ RunGameLoadFails(s)
    \/ RunGameLoad(s)
    \/ RunGameSendLoaded(s)
    \/ RunLoopExit(s)
    \/ TeardownCloseDone(s)
    \/ TeardownCloseExited(s)
    \/ GlfwTerminate(s)
    \/ LaunchGameAfterRun(s)

Timer(s) ==
    \/ TimerDone(s)
    \/ TimerGameExited(s)
    \/ TimerTick(s)
    \/ TimerSendPrepare(s)
    \/ TimerExpiredGlfwGone(s)
    \/ TimerQueryWindow(s)
    \/ TimerSendTimeout(s)
    \/ \E i \in 1..3 : TimerSendGeometry(s, i)
    \/ TimerSendHeightAndPause(s)
    \/ TimerResumeReceived(s)
    \/ TimerResumeTimeout(s)
    \/ TimerDoneAwaitingResume(s)
    \/ TimerNewDuration(s)
    \/ TimerDurationTimeout(s)
    \/ TimerAddTime(s)

Monitor ==
    \/ MonitorReceive
    \/ \E i \in 1..4 : HandleTimeoutRead(i)
    \/ \E i \in 1..4 : HandleTimeoutDeadline(i)
    \/ HandleTimeoutStore

Client(c) ==
    \/ SelectGame(c)
    \/ SelectTime(c)
    \/ \E minutes \in MinutesChoices : Payment(c, minutes)
    \/ LaunchGame(c)
    \/ SendResume(c)
    \/ SendDuration(c)
    \/ SetGameActive(c)
    \/ Quit(c)

Next ==
    \/ \E s \in Sessions : Engine(s)
    \/ \E s \in Sessions : Timer(s)
    \/ Monitor
    \/ \E c \in Clients : Client(c)

Spec == Init /\ [][Next]_vars

\* the same program in runs with a second extension payment
ClientWide(c) ==
    \/ SelectGame(c)
    \/ SelectTime(c)
    \/ \E minutes \in WideMinutes : PaymentWithin(c, minutes, MaxPaymentsWide)
    \/ LaunchGame(c)
    \/ SendResume(c)
    \/ SendDuration(c)
    \/ SetGameActive(c)
    \/ Quit(c)

NextWide ==
    \/ \E s \in Sessions : Engine(s)
    \/ \E s \in Sessions : Timer(s)
    \/ Monitor
    \/ \E c \in Clients : ClientWide(c)

WideSpec == Init /\ [][NextWide]_vars

\* the same program in runs in which the browser sends messages whose
\* content is not what the page offers: a payment with any minutes, a
\* selection with any payload
ClientRaw(c) ==
    \/ \E payload \in Payloads : SelectGameMessage(c, payload)
    \/ SelectTime(c)
    \/ \E minutes \in RawMinutes : PaymentWithin(c, minutes, MaxPayments)
    \/ LaunchGame(c)
    \/ SendResume(c)
    \/ SendDuration(c)
    \/ SetGameActive(c)
    \/ Quit(c)

NextRaw ==
    \/ \E s \in Sessions : Engine(s)
    \/ \E s \in Sessions : Timer(s)
    \/ Monitor
    \/ \E c \in Clients : ClientRaw(c)

RawSpec == Init /\ [][NextRaw]_vars

\* the same program in runs of ten-second legs in which the engine has no
\* window to ask for its position and size
TimerNoWindow(s) ==
    \/ TimerDone(s)
    \/ TimerGameExited(s)
    \/ TimerTick(s)
    \/ TimerSendPrepare(s)
    \/ TimerExpiredGlfwGone(s)
    \/ TimerQueryWindowOf(s, {NoWindow})
    \/ TimerSendTimeout(s)
    \/ \E i \in 1..3 : TimerSendGeometry(s, i)
    \/ TimerSendHeightAndPause(s)
    \/ TimerResumeReceived(s)
    \/ TimerResumeTimeout(s)
    \/ TimerDoneAwaitingResume(s)
    \/ TimerNewDuration(s)
    \/ TimerDurationTimeout(s)
    \/ TimerAddTime(s)

ClientTenSeconds(c) ==
    \/ SelectGame(c)
    \/ SelectTime(c)
    \/ \E minutes \in TenSecondMinutes : PaymentWithin(c, minutes, MaxPayments)
    \/ LaunchGame(c)
    \/ SendResume(c)
    \/ SendDuration(c)
    \/ SetGameActive(c)
    \/ Quit(c)

NextNoWindow ==
    \/ \E s \in Sessions : Engine(s)
    \/ \E s \in Sessions : TimerNoWindow(s)
    \/ Monitor
    \/ \E c \in Clients : ClientTenSeconds(c)

NoWindowSpec == Init /\ [][NextNoWindow]_vars

\* the same program in runs in which a second game can be launched, the
\* patron buys short legs and answers no expiry with a payment; what needs a
\* confirmation or a leg that passes ten seconds cannot happen in these runs
TimerUnanswered(s) ==
    \/ TimerDone(s)
    \/ TimerGameExited(s)
    \/ TimerTick(s)
    \/ TimerExpiredGlfwGone(s)
    \/ TimerQueryWindow(s)
    \/ TimerSendTimeout(s)
    \/ \E i \in 1..3 : TimerSendGeometry(s, i)
    \/ TimerSendHeightAndPause(s)
    \/ TimerResumeTimeout(s)
    \/ TimerDoneAwaitingResume(s)
    \/ TimerAddTime(s)

ClientShort(c) ==
    \/ SelectGame(c)
    \/ SelectTime(c)
    \/ \E minutes \in ShortMinutes : PaymentWithin(c, minutes, MaxPaymentsTwo)
    \/ LaunchGame(c)
    \/ Quit(c)

NextTwo ==
    \/ \E s \in TwoSessions : Engine(s)
    \/ \E s \in TwoSessions : TimerUnanswered(s)
    \/ Monitor
    \/ \E c \in Clients : ClientShort(c)

TwoSpec == InitFor(TwoSessions) /\ [][NextTwo]_vars

\* the same program with the expiry's test of GLFW and its query of the
\* window as the two steps they are
TimerCheckThenAccess(s) ==
    \/ TimerDone(s)
    \/ TimerGameExited(s)
    \/ TimerTick(s)
    \/ TimerSendPrepare(s)
    \/ TimerExpiredGlfwGone(s)
    \/ TimerCheckGlfw(s)
    \/ TimerAccessWindow(s)
    \/ TimerSendTimeout(s)
    \/ \E i \in 1..3 : TimerSendGeometry(s, i)
    \/ TimerSendHeightAndPause(s)
    \/ TimerResumeReceived(s)
    \/ TimerResumeTimeout(s)
    \/ TimerDoneAwaitingResume(s)
    \/ TimerNewDuration(s)
    \/ TimerDurationTimeout(s)
    \/ TimerAddTime(s)

NextCheckThenAccess ==
    \/ \E s \in Sessions : Engine(s)
    \/ \E s \in Sessions : TimerCheckThenAccess(s)
    \/ Monitor
    \/ \E c \in Clients : Client(c)

CheckThenAccessSpec == Init /\ [][NextCheckThenAccess]_vars

\* the same program in runs in which two browser clients pay for the same
\* expiry: the first client does what a patron does, a second one sends its
\* payment while the first one's is being handled.  The play window stays
\* open and the timer's four integers reach HandleTimeout within its deadline.
EngineWindowOpen(s) ==
    \/ RunGameLoadFails(s)
    \/ RunGameLoad(s)
    \/ RunGameSendLoaded(s)

TimerWindowOpen(s) ==
    \/ TimerTick(s)
    \/ TimerSendPrepare(s)
    \/ TimerQueryWindow(s)
    \/ TimerSendTimeout(s)
    \/ \E i \in 1..3 : TimerSendGeometry(s, i)
    \/ TimerSendHeightAndPause(s)
    \/ TimerResumeReceived(s)
    \/ TimerResumeTimeout(s)
    \/ TimerNewDuration(s)
    \/ TimerDurationTimeout(s)
    \/ TimerAddTime(s)

MonitorInTime ==
    \/ MonitorReceive
    \/ \E i \in 1..4 : HandleTimeoutRead(i)
    \/ HandleTimeoutStore

ClientFirst(c) ==
    \/ SelectGame(c)
    \/ SelectTime(c)
    \/ \E minutes \in ShortMinutes : PaymentWithin(c, minutes, MaxPayments)
    \/ LaunchGame(c)
    \/ SendResume(c)
    \/ SendDuration(c)
    \/ SetGameActive(c)
    \/ Quit(c)

ClientSecond(c) ==
    \/ \E minutes \in ShortMinutes : PaymentBeside(c, minutes)
    \/ SendResume(c)
    \/ SendDuration(c)
    \/ SetGameActive(c)

NextPair ==
    \/ \E s \in Sessions : EngineWindowOpen(s)
    \/ \E s \in Sessions : TimerWindowOpen(s)
    \/ MonitorInTime
    \/ \E c \in Clients : ClientFirst(c)
    \/ \E c \in PairClients \ Clients : ClientSecond(c)

PairSpec == InitOf(Sessions, PairClients) /\ [][NextPair]_vars

(* ---------------------- ludo: globalTimerOverlay.mu -------------------- *)
\* The accesses to the overlay with the lock written out: mu.w is the
\* goroutine holding the write lock, mu.r the goroutines holding a read lock.
TimerRoutine(s) == <<"timer", s>>
EngineThread(s) == <<"engine", s>>

\* sync.RWMutex: Lock waits for the writer and for every reader, RLock waits
\* for the writer
CanLock == mu.w = NoHolder /\ mu.r = {}
CanRLock == mu.w = NoHolder

\* RunGame up to state.CoreRunning = true, before the overlay initialisation
RunGameStart(s) ==
    /\ rg[s] = "init"
    /\ rg' = [rg EXCEPT ![s] = "overlayLock"]
    /\ glfwInitialized' = TRUE
    /\ MenuActive' = FALSE
    /\ CoreRunning' = TRUE
    /\ UNCHANGED <<aside, chans, durationSeconds, tk, doneChan, gameExitedChan,
                   globalTimerOverlay, front, ghost>>

\* globalTimerOverlay.mu.Lock() of the initialisation
RunGameOverlayLock(s) ==
    /\ rg[s] = "overlayLock"
    /\ CanLock
    /\ mu' = [mu EXCEPT !.w = EngineThread(s)]
    /\ rg' = [rg EXCEPT ![s] = "overlayRemaining"]
    /\ UNCHANGED <<hub, chans, durationSeconds, tk, doneChan, gameExitedChan, shared,
                   CoreRunning, glfwInitialized, front, ghost>>

\* globalTimerOverlay.remaining = durationSeconds
RunGameOverlayRemaining(s) ==
    /\ rg[s] = "overlayRemaining"
    /\ WriteOverlayRemaining(s, durationSeconds[s])
    /\ rg' = [rg EXCEPT ![s] = "overlayVisible"]
    /\ UNCHANGED <<aside, chans, durationSeconds, tk, doneChan, gameExitedChan, MenuActive,
                   CoreRunning, glfwInitialized, front, sent, ev>>

\* globalTimerOverlay.visible = true
RunGameOverlayVisible(s) ==
    /\ rg[s] = "overlayVisible"
    /\ globalTimerOverlay' = [globalTimerOverlay EXCEPT !.visible = TRUE]
    /\ rg' = [rg EXCEPT ![s] = "overlayUnlock"]
    /\ UNCHANGED <<aside, chans, durationSeconds, tk, doneChan, gameExitedChan, MenuActive,
                   CoreRunning, glfwInitialized, front, ghost>>

\* globalTimerOverlay.mu.Unlock() of the initialisation
RunGameOverlayUnlock(s) ==
    /\ rg[s] = "overlayUnlock"
    /\ mu' = [mu EXCEPT !.w = NoHolder]
    /\ rg' = [rg EXCEPT ![s] = "sendLoaded"]
    /\ UNCHANGED <<hub, chans, durationSeconds, tk, doneChan, gameExitedChan, shared,
                   CoreRunning, glfwInitialized, front, ghost>>

\* drawTimerOverlay, called once in every frame of runLoop: mu.RLock()
DrawRLock(s) ==
    /\ rg[s] = "runLoop"
    /\ CanRLock
    /\ mu' = [mu EXCEPT !.r = @ \cup {EngineThread(s)}]
    /\ rg' = [rg EXCEPT ![s] = "drawRead"]
    /\ UNCHANGED <<hub, chans, durationSeconds, tk, doneChan, gameExitedChan, shared,
                   CoreRunning, glfwInitialized, front, ghost>>

\* drawTimerOverlay: remaining and visible are read into locals
DrawRead(s) ==
    /\ rg[s] = "drawRead"
    /\ rg' = [rg EXCEPT ![s] = "drawRUnlock"]
    /\ UNCHANGED <<aside, chans, durationSeconds, tk, doneChan, gameExitedChan, shared,
                   CoreRunning, glfwInitialized, front, ghost>>

\* drawTimerOverlay: mu.RUnlock(); the frame is drawn and the loop goes on
DrawRUnlock(s) ==
    /\ rg[s] = "drawRUnlock"
    /\ mu' = [mu EXCEPT !.r = @ \ {EngineThread(s)}]
    /\ rg' = [rg EXCEPT ![s] = "runLoop"]
    /\ UNCHANGED <<hub, chans, durationSeconds, tk, doneChan, gameExitedChan, shared,
                   CoreRunning, glfwInitialized, front, ghost>>

\* outer select, case <-ticker.C, up to remaining--
TimerTickCount(s) ==
    /\ tk[s].pc = "select"
    /\ IF tk[s].gamePaused
       THEN UNCHANGED tk
       ELSE LET r == tk[s].remaining - 1
            IN tk' = [tk EXCEPT ![s].remaining = r,
                                ![s].legAtTen = @ \/ r = PrepareAt,
                                ![s].pc = "tickLock"]
    /\ ev' = Event("tick", s, NoMsg, 0)
    /\ UNCHANGED <<aside, chans, engine, shared, front, sent, overlayWrites>>

\* the wait for the new duration, case newDuration := <-timerChan, up to
\* prepareTimeoutSent = false
TimerReceiveDuration(s) ==
    /\ tk[s].pc = "awaitDuration"
    /\ Ready(timerChan)
    /\ LET m == Head(timerChan)
       IN /\ timerChan' = Tail(timerChan)
          /\ tk' = [tk EXCEPT ![s].remaining = m.v,
                              ![s].prepareTimeoutSent = FALSE,
                              ![s].legPrepares = 0,
                              ![s].legAtTen = FALSE,
                              ![s].confirmedBy = 0,
                              ![s].paidBefore = 0,
                              ![s].pc = "durationLock"]
          /\ ev' = Event("newDuration", s, m, tk[s].remaining)
    /\ UNCHANGED <<aside, resumeChan, engine, shared, front, sent, overlayWrites>>

\* outer select, case newDuration := <-timerChan, up to remaining += newDuration
TimerReceiveTime(s) ==
    /\ tk[s].pc = "select"
    /\ Ready(timerChan)
    /\ LET m == Head(timerChan)
       IN /\ timerChan' = Tail(timerChan)
          /\ tk' = IF m.v > 0
                   THEN [tk EXCEPT ![s].remaining = @ + m.v, ![s].pc = "addLock"]
                   ELSE tk
          /\ ev' = Event("addTime", s, m, tk[s].remaining)
    /\ UNCHANGED <<aside, resumeChan, engine, shared, front, sent, overlayWrites>>

\* the positions of the timer goroutine at its three overlay writes
LockPcs == {"tickLock", "durationLock", "addLock"}
StorePcs == {"tickStore", "durationStore", "addStore"}
UnlockPcs == {"tickUnlock", "durationUnlock", "addUnlock"}

AfterLock(pc) ==
    CASE pc = "tickLock" -> "tickStore"
      [] pc = "durationLock" -> "durationStore"
      [] pc = "addLock" -> "addStore"

AfterStore(pc) ==
    CASE pc = "tickStore" -> "tickUnlock"
      [] pc = "durationStore" -> "durationUnlock"
      [] pc = "addStore" -> "addUnlock"

\* after the Unlock: the tests that follow the tick, the resumption that
\* follows the new duration, the outer select after a top-up
AfterUnlock(t) ==
    CASE t.pc = "tickUnlock" -> AfterTick(t)
      [] t.pc = "durationUnlock" -> "resume"
      [] t.pc = "addUnlock" -> "select"

\* a timer that goes on to its overlay write without taking the lock
TimerOverlayLockSkipped(s) ==
    /\ tk[s].pc \in LockPcs
    /\ tk' = [tk EXCEPT ![s].pc = AfterLock(tk[s].pc)]
    /\ UNCHANGED <<aside, chans, engine, shared, front, ghost>>

\* globalTimerOverlay.mu.Lock() of the timer goroutine
TimerOverlayLock(s) ==
    /\ tk[s].pc \in LockPcs
    /\ CanLock
    /\ mu' = [mu EXCEPT !.w = TimerRoutine(s)]
    /\ tk' = [tk EXCEPT ![s].pc = AfterLock(tk[s].pc)]
    /\ UNCHANGED <<hub, chans, engine, shared, front, ghost>>

\* globalTimerOverlay.remaining = remaining
TimerOverlayStore(s) ==
    /\ tk[s].pc \in StorePcs
    /\ WriteOverlayRemaining(s, tk[s].remaining)
    /\ tk' = [tk EXCEPT ![s].pc = AfterStore(tk[s].pc)]
    /\ UNCHANGED <<aside, chans, engine, MenuActive, front, sent, ev>>

\* globalTimerOverlay.mu.Unlock() of the timer goroutine
TimerOverlayUnlock(s) ==
    /\ tk[s].pc \in UnlockPcs
    /\ mu' = [mu EXCEPT !.w = NoHolder]
    /\ tk' = [tk EXCEPT ![s].pc = AfterUnlock(tk[s])]
    /\ UNCHANGED <<hub, chans, engine, shared, front, ghost>>

\* state.MenuActive = false; gamePaused = false, after the new duration
TimerResume(s) ==
    /\ tk[s].pc = "resume"
    /\ MenuActive' = FALSE
    /\ tk' = [tk EXCEPT ![s].gamePaused = FALSE, ![s].pc = "select"]
    /\ UNCHANGED <<aside, chans, engine, globalTimerOverlay, front, ghost>>

\* the program with the lock of the overlay written out
EngineLocking(s) ==
    \/ RunGameLoadFails(s)
    \/ RunGameStart(s)
    \/ RunGameOverlayLock(s)
    \/ RunGameOverlayRemaining(s)
    \/ RunGameOverlayVisible(s)
    \/ RunGameOverlayUnlock(s)
    \/ RunGameSendLoaded(s)
    \/ DrawRLock(s)
    \/ DrawRead(s)
    \/ DrawRUnlock(s)
    \/ RunLoopExit(s)
    \/ TeardownCloseDone(s)
    \/ TeardownCloseExited(s)
    \/ GlfwTerminate(s)
    \/ LaunchGameAfterRun(s)

TimerLocking(s) ==
    \/ TimerDone(s)
    \/ TimerGameExited(s)
    \/ TimerTickCount(s)
    \/ TimerReceiveDuration(s)
    \/ TimerReceiveTime(s)
    \/ TimerOverlayLock(s)
    \/ TimerOverlayStore(s)
    \/ TimerOverlayUnlock(s)
    \/ TimerResume(s)
    \/ TimerSendPrepare(s)
    \/ TimerExpiredGlfwGone(s)
    \/ TimerQueryWindow(s)
    \/ TimerSendTimeout(s)
    \/ \E i \in 1..3 : TimerSendGeometry(s, i)
    \/ TimerSendHeightAndPause(s)
    \/ TimerResumeReceived(s)
    \/ TimerResumeTimeout(s)
    \/ TimerDoneAwaitingResume(s)
    \/ TimerDurationTimeout(s)

NextLocking ==
    \/ \E s \in Sessions : EngineLocking(s)
    \/ \E s \in Sessions : TimerLocking(s)
    \/ Monitor
    \/ \E c \in Clients : Client(c)

LockingSpec == Init /\ [][NextLocking]_vars

\* the same program in runs in which the frame loop can panic; such a run
\* differs from one in which the window is closed only in what is recorded
\* about it
EngineOrPanic(s) ==
    \/ Engine(s)
    \/ RunLoopPanics(s)

NextPanic ==
    \/ \E s \in Sessions : EngineOrPanic(s)
    \/ \E s \in Sessions : Timer(s)
    \/ Monitor
    \/ \E c \in Clients : Client(c)

PanicSpec == Init /\ [][NextPanic]_vars

\* the ticker fires every second, the timers of the selects run out, the
\* runtime schedules a goroutine that can take a step, and main's monitor
\* loop polls every 100 ms
LiveSpec ==
    /\ Spec
    /\ \A s \in Sessions :
          /\ WF_vars(Timer(s))
          /\ WF_vars(TimerDone(s))
    /\ WF_vars(Monitor)

(* ------------------------------- claims -------------------------------- *)
Started(s) == tk[s].pc # "none"

\* C1: every session whose timer goroutine was started has had exactly one
\* -999 placed on timerChan, and no -2 and no -1 of the session is placed
\* before it.
SessionLoadedOnceAndFirst ==
    \A s \in Sessions :
        /\ sent[s].loaded <= 1
        /\ Started(s) => sent[s].loaded = 1
        /\ sent[s].tickDriven => sent[s].loaded = 1

\* C1 is reached: a session has placed -999 and later a tick-driven sentinel.
SessionLoadedThenTickDriven ==
    \E s \in Sessions : sent[s].loaded = 1 /\ sent[s].tickDriven

\* a step in which the timer of s leaves the wait for the new duration
LeavesDurationWait(s) ==
    tk[s].pc = "awaitDuration" /\ tk'[s].pc # "awaitDuration"

GeometryKind(i) == <<"x", "y", "width", "height">>[i]
GeometryKinds == {GeometryKind(i) : i \in 1..4}
HandleTimeoutReading == mon.pc \in {ReadPc(i) : i \in 1..4}

\* C3: a -1 on timerChan is followed on the channel by the geometry integers
\* of its own expiry, in order and with nothing else behind them, and while
\* HandleTimeout is reading the four integers nothing but geometry integers is
\* on the channel (so no second sentinel and no front-end duration).
TimeoutExchangeUninterrupted ==
    /\ \A i \in 1..Len(timerChan) :
          timerChan[i].k = "timeout" =>
              \A j \in (i + 1)..Len(timerChan) :
                  /\ j - i <= 4
                  /\ timerChan[j].k = GeometryKind(j - i)
                  /\ timerChan[j].s = timerChan[i].s
    /\ HandleTimeoutReading =>
          \A i \in 1..Len(timerChan) : timerChan[i].k \in GeometryKinds

\* C4: in every leg the timer has emitted -2 exactly once if a tick of the
\* leg has brought remaining to 10, and not at all otherwise.
PrepareTimeoutOncePerLeg ==
    \A s \in Sessions :
        (Started(s) /\ tk[s].pc # "sendPrepare") =>
            tk[s].legPrepares = IF tk[s].legAtTen THEN 1 ELSE 0

\* C5: a positive value d read at the outer select is added to remaining (it
\* does not replace it), and the overlay is set to the sum.
AddTimeAdds ==
    [][\A s \in Sessions :
          (TimerAddTime(s) /\ Head(timerChan).v > 0)
          => /\ tk'[s].remaining = tk[s].remaining + Head(timerChan).v
             /\ globalTimerOverlay'.remaining = tk[s].remaining + Head(timerChan).v
             /\ tk'[s].pc = "select"]_vars

\* C5 is reached: a positive value was added to a remaining time that was
\* itself positive, so that adding and replacing differ.
TimeWasAdded ==
    /\ ev.op = "addTime"
    /\ ev.m.v > 0
    /\ ev.before > 0
    /\ tk[ev.s].remaining = ev.before + ev.m.v
    /\ globalTimerOverlay.remaining = ev.before + ev.m.v

\* C7: once the timer goroutine has returned from the 30-second branch, the
\* session writes the overlay no more.
NoOverlayWriteAfterAbandon ==
    [][\A s \in Sessions :
          tk[s].why = "abandoned" =>
              /\ overlayWrites'[s] = overlayWrites[s]
              /\ tk'[s] = tk[s]]_vars

\* C7 is reached: the timer gave up after 30 seconds and the session went on
\* to its teardown.
AbandonedThenTornDown ==
    \E s \in Sessions : tk[s].why = "abandoned" /\ rg[s] = "returned"

\* C6: a timer that waits for the confirmation of an expiry does not wait for
\* ever: unless a confirmation shows up on resumeChan, the goroutine returns.
\* Its session is then over for the timer: a goroutine that has returned
\* stays returned and its locals never change again.
AbandonsInsteadOfHanging ==
    /\ \A s \in Sessions :
          (tk[s].pc = "awaitResume") ~> (tk[s].pc = "exited" \/ Ready(resumeChan))
    /\ [][\A s \in Sessions : tk[s].pc = "exited" => tk'[s] = tk[s]]_vars

\* C6 is reached: no confirmation came and the goroutine returned from the
\* 30-second branch, with the engine still paused.
AbandonedAfterThirtySeconds ==
    /\ ev.op = "abandoned"
    /\ tk[ev.s].pc = "exited"
    /\ tk[ev.s].why = "abandoned"
    /\ resumeChan = <<>>

\* C8: a timer that leaves the wait for the new duration without having read
\* a value has remaining = 60, is not paused and is back at its outer select;
\* and it does leave that wait.
DefaultsToSixtySeconds ==
    /\ [][\A s \in Sessions :
             (LeavesDurationWait(s) /\ timerChan' = timerChan)
             => /\ tk'[s].remaining = DefaultDuration
                /\ ~tk'[s].gamePaused
                /\ tk'[s].pc = "select"]_vars
    /\ \A s \in Sessions : (tk[s].pc = "awaitDuration") ~> (tk[s].pc = "select")

\* C8 is reached: the 5-second branch was taken and the timer counts from 60.
DefaultedToSixty ==
    /\ ev.op = "default"
    /\ tk[ev.s].remaining = DefaultDuration
    /\ tk[ev.s].pc = "select"
    /\ ~tk[ev.s].gamePaused

\* the timer is parked in one of its three waits
Blocked(s) == tk[s].pc \in {"select", "awaitResume", "awaitDuration"}

\* the branches  case <-doneChan: return
DoneExit(s) == TimerDone(s) \/ TimerDoneAwaitingResume(s)

\* C9: wherever the timer is parked, a closed doneChan alone lets it return.
DoneEnablesExitEverywhere ==
    \A s \in Sessions : (Blocked(s) /\ doneChan[s]) => ENABLED DoneExit(s)

\* C10: once doneChan is closed the timer goroutine returns.
DoneLeadsToExit ==
    \A s \in Sessions : doneChan[s] ~> (tk[s].pc = "exited")

\* C10 is reached: doneChan was closed while the timer was still running, and
\* the timer returned through a doneChan branch.
ExitedOnDone ==
    \E s \in Sessions : doneChan[s] /\ tk[s].pc = "exited" /\ tk[s].why = "done"

\* RunGame is past its teardown defer
TornDown(s) == rg[s] \in {"terminate", "waitLoaded", "returned"} /\ Started(s)

\* C11: doneChan and gameExitedChan of a session are closed at most once,
\* a closed channel stays closed, a session that is past its teardown has
\* closed each exactly once, whether or not its timer had returned before, and
\* closing is all that is ever done to them.
ClosedExactlyOnce ==
    /\ [](\A s \in Sessions :
            /\ sent[s].doneCloses = (IF doneChan[s] THEN 1 ELSE 0)
            /\ sent[s].exitedCloses = (IF gameExitedChan[s] THEN 1 ELSE 0)
            /\ TornDown(s) => doneChan[s] /\ gameExitedChan[s])
    /\ [][\A s \in Sessions :
             /\ doneChan[s] => doneChan'[s]
             /\ gameExitedChan[s] => gameExitedChan'[s]]_vars

\* C11 is reached: the timer had returned on its own, from the 30-second
\* branch, before the teardown closed the two channels.
ClosedAfterTimerLeft ==
    \E s \in Sessions :
        /\ tk[s].why = "abandoned"
        /\ TornDown(s)
        /\ sent[s].doneCloses = 1
        /\ sent[s].exitedCloses = 1

\* a step that places the -1 of session s on timerChan
PlacesTimeout(s) ==
    /\ Len(timerChan') = Len(timerChan) + 1
    /\ timerChan'[Len(timerChan')] = Msg(Timeout, "timeout", s)

PlacesDuration(m) ==
    /\ timerChan' = Append(timerChan, m)
    /\ m.k = "duration"

\* a step in which the timer of s reads a front-end duration as its new leg
ReadsDurationAsNewLeg(s) ==
    /\ LeavesDurationWait(s)
    /\ timerChan' # timerChan
    /\ Head(timerChan).k = "duration"

\* C13: a payment places its duration on timerChan only after it has placed
\* its confirmation on resumeChan, and a timer that reads a front-end duration
\* as its new leg has before read the confirmation of the same payment.
ConfirmationThenDuration ==
    [][/\ \A c \in Clients :
             PlacesDuration(Msg(cl[c].minutes * SecondsPerMinute, "duration",
                                cl[c].payment))
             => cl[c].confirmed
       /\ \A s \in Sessions :
             ReadsDurationAsNewLeg(s)
             => Head(timerChan).s = tk[s].confirmedBy]_vars

\* C14: a quit in ExtendTime takes the front-end to SelectGame and leaves
\* every timer that waits for a confirmation with its stop signal raised.
QuitStopsTimer ==
    [][\A c \in Clients :
          Quit(c) => /\ serverState' = "SelectGame"
                     /\ \A s \in Sessions :
                           tk[s].pc = "awaitResume" => doneChan'[s]]_vars

\* a step in which HandleTimeout returns
HandleTimeoutReturns == mon.pc = "store" /\ mon'.pc # "store"

\* C15: the state becomes ExtendTime only in the step in which HandleTimeout
\* returns; HandleTimeout is entered only by the monitor taking a -1 that a
\* timer has sent; once entered it goes through its four reads to its end
\* without leaving them; and its return sets ExtendTime whatever the state was.
ExtendTimeOnlyByTimeout ==
    [][/\ (serverState' = "ExtendTime" /\ serverState # "ExtendTime")
             => HandleTimeoutReturns
       /\ (mon.pc = "poll" /\ mon'.pc # "poll")
             => /\ Head(timerChan).v = Timeout
                /\ Head(timerChan).k = "timeout"
                /\ timerChan' = Tail(timerChan)
                /\ mon'.pc = "read1"
       /\ \A i \in 1..4 :
             (mon.pc = ReadPc(i) /\ mon'.pc # ReadPc(i)) => mon'.pc = NextReadPc(i)
       /\ HandleTimeoutReturns
             => serverState' = "ExtendTime" /\ mon'.pc = "poll"]_vars

\* C15 is reached: the payment handler has finished, so the state was
\* GameActive, and a later -1 has moved it to ExtendTime again.
ExtendTimeForced ==
    /\ serverState = "ExtendTime"
    /\ mon.pc = "poll"
    /\ payments > 0
    /\ \A c \in Clients : cl[c].pc = "idle"

\* a step in which a payment message starts an extension
StartsExtension(c) == cl[c].pc = "idle" /\ cl'[c].pc = "sendResume"

\* C16: an extension payment is taken only in ExtendPayment; its handler then
\* sends the confirmation, then the duration, and sets the state GameActive.
ExtensionOnlyAfterConfirmTime ==
    [][\A c \in Clients :
          /\ StartsExtension(c) => serverState = "ExtendPayment"
          /\ (cl[c].pc = "sendResume" /\ cl'[c] # cl[c])
                => /\ resumeChan' = Append(resumeChan, Confirmation(cl[c].payment))
                   /\ cl'[c].pc = "sendDuration"
          /\ (cl[c].pc = "sendDuration" /\ cl'[c] # cl[c])
                => /\ PlacesDuration(Msg(cl[c].minutes * SecondsPerMinute,
                                         "duration", cl[c].payment))
                   /\ cl'[c].pc = "setActive"
          /\ (cl[c].pc = "setActive" /\ cl'[c] # cl[c])
                => serverState' = "GameActive" /\ cl'[c].pc = "idle"]_vars

\* C16, amended: an extension payment is taken in ExtendPayment and in
\* ExtendTime and in no other state; its handler then sends the confirmation
\* and then the duration (each unless its channel is full), and sets the
\* state GameActive.
ExtensionOnlyWhileExtending ==
    [][\A c \in Clients :
          /\ StartsExtension(c) => serverState \in {"ExtendPayment", "ExtendTime"}
          /\ (cl[c].pc = "sendResume" /\ cl'[c] # cl[c])
                => /\ HasRoom(resumeChan)
                      => resumeChan' = Append(resumeChan, Confirmation(cl[c].payment))
                   /\ cl'[c].pc = "sendDuration"
          /\ (cl[c].pc = "sendDuration" /\ cl'[c] # cl[c])
                => /\ HasRoom(timerChan)
                      => PlacesDuration(Msg(cl[c].minutes * SecondsPerMinute,
                                            "duration", cl[c].payment))
                   /\ cl'[c].pc = "setActive"
          /\ (cl[c].pc = "setActive" /\ cl'[c] # cl[c])
                => serverState' = "GameActive" /\ cl'[c].pc = "idle"]_vars

\* C16 is reached: a payment taken in ExtendPayment has sent its pair and
\* the front-end shows the game as active.
ExtensionPaidAfterConfirmTime ==
    /\ serverState = "GameActive"
    /\ payments > 0
    /\ \A c \in Clients : cl[c].pc = "idle"
    /\ ev.op = "newDuration"
    /\ ev.m.k = "duration"

\* a step in which the goroutine that LaunchGame started for an engine
\* session which ran its loop comes to its end
LaunchGoroutineEnds(s) == Started(s) /\ rg[s] # "returned" /\ rg'[s] = "returned"

\* C17: after the run loop has ended, done is closed first, the Engine is
\* unloaded in a later step with done closed, and when the front-end's launch
\* goroutine ends after that the state is SelectGame.
TeardownInOrder ==
    [][\A s \in Sessions :
          /\ (rg[s] = "closeDone" /\ rg'[s] # "closeDone")
                => doneChan'[s] /\ ~gameExitedChan'[s] /\ UNCHANGED CoreRunning
          /\ (rg[s] = "closeExited" /\ rg'[s] # "closeExited")
                => doneChan[s] /\ gameExitedChan'[s] /\ ~CoreRunning'
          /\ LaunchGoroutineEnds(s)
                => doneChan[s] /\ ~CoreRunning' /\ serverState' = "SelectGame"]_vars

\* the positions of RunGame's return path, in their order
ReturnPath == <<"closeDone", "closeExited", "terminate", "waitLoaded", "returned">>
ReturnIndex(p) == CHOOSE i \in 1..Len(ReturnPath) : ReturnPath[i] = p

\* C18: a session whose frame loop panicked is on RunGame's return path and
\* moves along it only forwards; its next step of the return path can always
\* be taken; once past the teardown both its channels are closed, each closed
\* once; and the step that closes gameExitedChan leaves the core unloaded.
PanicRecoveredAndTornDown ==
    /\ [](\A s \in Sessions : sent[s].recovered =>
            /\ \E i \in 1..Len(ReturnPath) : rg[s] = ReturnPath[i]
            /\ rg[s] = "closeDone" => ENABLED TeardownCloseDone(s)
            /\ rg[s] = "closeExited" => ENABLED TeardownCloseExited(s)
            /\ rg[s] = "terminate" => ENABLED GlfwTerminate(s)
            /\ rg[s] \in {"terminate", "waitLoaded", "returned"}
                  => /\ doneChan[s] /\ sent[s].doneCloses = 1
                     /\ gameExitedChan[s] /\ sent[s].exitedCloses = 1)
    /\ [][\A s \in Sessions :
            /\ (rg[s] = "runLoop" /\ sent'[s].recovered) => rg'[s] = "closeDone"
            /\ (sent[s].recovered /\ rg'[s] # rg[s])
                  => /\ rg[s] # "returned"
                     /\ rg'[s] = ReturnPath[ReturnIndex(rg[s]) + 1]
            /\ (sent[s].recovered /\ rg[s] = "closeExited" /\ rg'[s] = "terminate")
                  => ~CoreRunning']_vars

\* C18 is reached: RunGame has returned nil after a recovered panic while its
\* timer was waiting for a confirmation, and the timer has left on done.
ReturnedAfterPanic ==
    \E s \in Sessions :
        /\ sent[s].recovered
        /\ rg[s] \in {"waitLoaded", "returned"}
        /\ tk[s].why = "done"

\* a session whose RunGame returned an error
LoadFailed(s) == rg[s] = "returned" /\ ~Started(s)

\* C19: the step in which a load fails sends nothing, starts no timer and
\* sets the state SelectGame; a failed session has announced nothing, has no
\* timer and no closed channel, and stays as it is; and RunGame is entered
\* only by a client's launch after a payment.
LoadFailureReturnsToSelection ==
    /\ [](\A s \in Sessions : LoadFailed(s) =>
            /\ sent[s].loaded = 0 /\ ~sent[s].tickDriven
            /\ tk[s] = NoTimer
            /\ ~doneChan[s] /\ ~gameExitedChan[s])
    /\ [][\A s \in Sessions :
            /\ (rg[s] = "init" /\ rg'[s] = "returned")
                  => /\ serverState' = "SelectGame"
                     /\ UNCHANGED <<timerChan, resumeChan, tk, gameLoadedChan>>
            /\ LoadFailed(s) => rg'[s] = rg[s] /\ tk'[s] = tk[s]
            /\ (rg[s] # "init" /\ rg'[s] = "init")
                  => \E c \in Clients : cl[c].pc = "launch" /\ cl'[c].pc = "idle"]_vars

\* C19 is reached: a launch has failed and the front-end is back at the game
\* selection.
LaunchFailedOnce ==
    \E s \in Sessions : LoadFailed(s) /\ serverState = "SelectGame"

\* nothing is running and nothing is under way: no RunGame, no timer, no
\* value left for the monitor, no handler in the middle of its work
AllQuiet ==
    /\ \A s \in Sessions : rg[s] \in {"idle", "returned"} /\ tk[s].pc \in {"none", "exited"}
    /\ timerChan = <<>>
    /\ mon.pc = "poll"
    /\ \A c \in Clients : cl[c].pc = "idle"

\* the states in which handleMessage accepts some intent
AcceptsIntent == {"SelectGame", "TimeSelect", "Payment", "ExtendTime", "ExtendPayment"}

\* C20: once an engine session has ended and nothing is running any more, the
\* front-end is in SelectGame or in a state in which it accepts an intent.
PatronNeverStuck ==
    (AllQuiet /\ \E s \in Sessions : rg[s] = "returned")
        => serverState \in AcceptsIntent

\* a pass of the monitor that takes the session-loaded sentinel
ReceivesSessionLoaded == MonitorReceive /\ Head(timerChan).v = SessionLoaded

\* C21: the launch puts the front-end into GameLoading; the state becomes
\* GameActive in the step in which the monitor takes the session-loaded
\* sentinel of a launch, and a front-end that is loading is made active by
\* no other step.
GameActiveOnSessionLoaded ==
    [][/\ \A c \in Clients : LaunchGame(c) => serverState' = "GameLoading"
       /\ ReceivesSessionLoaded => serverState' = "GameActive"
       /\ (serverState = "GameLoading" /\ serverState' = "GameActive")
             => ReceivesSessionLoaded]_vars

\* a session that counts down or waits for the answer to its expiry
ActiveOrExpired(s) == rg[s] = "runLoop" /\ tk[s].pc \notin {"none", "exited"}

\* a session whose RunGame is between the overlay initialisation and the end
\* of its teardown, and whose timer has not abandoned it
NotYetDismissed(s) ==
    /\ rg[s] \in {"sendLoaded", "runLoop", "closeDone", "closeExited"}
    /\ tk[s].why # "abandoned"

\* C22: the overlay is visible while a session is active or expired, and it
\* is visible only while some session has been neither torn down nor abandoned.
OverlayVisibleIffSession ==
    /\ (\E s \in Sessions : ActiveOrExpired(s)) => globalTimerOverlay.visible
    /\ globalTimerOverlay.visible => \E s \in Sessions : NotYetDismissed(s)

\* the session lengths that come from minutes of the time selection's range
ClampedDurations == {m * SecondsPerMinute : m \in MinMinutes..MaxMinutes}

\* C23: the length RunGame is called with and every duration the payment
\* handler places on timerChan come from minutes within [1, 60].
DurationsFromClampedMinutes ==
    [][/\ \A s \in Sessions :
             (rg[s] = "idle" /\ rg'[s] = "init") => durationSeconds'[s] \in ClampedDurations
       /\ \A c \in Clients :
             (/\ cl[c].pc = "sendDuration" /\ cl'[c].pc = "setActive"
              /\ Len(timerChan') = Len(timerChan) + 1)
                => timerChan'[Len(timerChan')].v \in ClampedDurations]_vars

\* C24: the state moves from SelectGame to TimeSelect only in a step in which
\* a client's selection names a game of the list.
SelectionOfListedGameOnly ==
    [][(serverState = "SelectGame" /\ serverState' = "TimeSelect")
          => /\ Games # {}
             /\ \E c \in Clients : cl'[c].selected \in Games]_vars

\* C25: each tick of a timer that is not paused takes one second off, and the
\* tick that reaches 0 is the expiry; when the engine has no window to ask,
\* HandleTimeout ends with the geometry (0, 0, 800, 600).
TenSecondLegThenDefaultGeometry ==
    [][/\ \A s \in Sessions :
             (tk[s].pc = "select" /\ ~tk[s].gamePaused /\ tk'[s].remaining # tk[s].remaining
              /\ ev'.op = "tick")
                => /\ tk'[s].remaining = tk[s].remaining - 1
                   /\ tk'[s].remaining = 0 => tk'[s].pc = "expired"
       /\ HandleTimeoutReturns
             => gameWindow' = <<0, 0, DefaultWidth, DefaultHeight>>]_vars

\* a step in which the timer leaves the wait for the new duration and goes
\* back to counting
ResumesCounting(s) == tk[s].pc = "awaitDuration" /\ tk'[s].pc = "select"

\* a tick that counts a second of the leg down
CountsDown(s) ==
    /\ tk[s].pc = "select" /\ ~tk[s].gamePaused
    /\ ev'.op = "tick" /\ ev'.s = s
    /\ tk'[s].remaining = tk[s].remaining - 1

\* C26: when the timer goes back to counting after an expiry the paused flag
\* of the engine is false, and no tick counts a leg down while it is true.
NeverCountsWhilePaused ==
    [][\A s \in Sessions :
          /\ ResumesCounting(s) => ~tk'[s].gamePaused /\ ~MenuActive'
          /\ CountsDown(s) => ~MenuActive]_vars

\* C27: the confirmation a waiting timer takes, and a front-end duration it
\* then takes as its new leg, belong to a payment made after the expiry the
\* timer is waiting at.
AnswersOwnExpiryOnly ==
    [][\A s \in Sessions :
          /\ (/\ tk[s].pc = "awaitResume" /\ tk'[s].pc # "awaitResume"
              /\ Len(resumeChan') < Len(resumeChan))
                => Head(resumeChan).p > tk[s].paidBefore
          /\ ReadsDurationAsNewLeg(s)
                => Head(timerChan).s > tk[s].paidBefore]_vars

\* a step in which the timer goroutine takes the head of timerChan, in its
\* outer select or while it waits for the new duration
TimerTakes(s) ==
    /\ tk[s].pc \in {"select", "awaitDuration"}
    /\ Ready(timerChan) /\ timerChan' = Tail(timerChan)
    /\ ev' # ev /\ ev'.s = s /\ ev'.op \in {"addTime", "newDuration"}

\* the kinds of the values the timer goroutine and RunGame place on timerChan
SentinelKinds == {"loaded", "prepare", "timeout"} \cup GeometryKinds

\* C28: no timer takes from timerChan a value that RunGame or a timer has
\* placed there.
SentinelsNotTakenByTimer ==
    [][\A s \in Sessions : TimerTakes(s) => Head(timerChan).k \notin SentinelKinds]_vars

\* a step in which the monitor of main, or the HandleTimeout it has called,
\* takes the head of timerChan
FrontEndTakes == MonitorReceive \/ \E i \in 1..4 : HandleTimeoutRead(i)

\* no timer goroutine is there to receive from timerChan
NoTimerRunning == \A s \in Sessions : tk[s].pc \in {"none", "exited"}

\* C29: neither the monitor of main nor HandleTimeout takes from timerChan a
\* duration that a payment has placed there; checked for the steps in which
\* no timer is running, where the timing of the receivers plays no part.
DurationsNotTakenByFrontEnd ==
    [][(FrontEndTakes /\ NoTimerRunning) => Head(timerChan).k # "duration"]_vars

\* a session whose RunGame has been called and has not returned
Running(s) == rg[s] \in {"init", "sendLoaded", "runLoop", "closeDone", "closeExited",
                         "terminate"}

\* C30: at most one RunGame is running.
AtMostOneRunGame == Cardinality({s \in DOMAIN rg : Running(s)}) <= 1

\* the timer of s has placed the -1 of an expiry that no extension, default
\* or abandonment has resolved yet
TimeoutEmitted(s) ==
    tk[s].pc \in {"sendGeom1", "sendGeom2", "sendGeom3", "sendGeom4",
                  "awaitResume", "awaitDuration"}

\* C31: while the -1 of an unresolved expiry is on timerChan or has been
\* taken by the front-end, state.MenuActive is true.
PausedBeforeTimeoutEmitted ==
    \A s \in Sessions : TimeoutEmitted(s) => MenuActive

\* a step HandleTimeout can take by itself: a read, or its deadline
HandleTimeoutStep ==
    \E i \in 1..4 : HandleTimeoutRead(i) \/ HandleTimeoutDeadline(i)

\* C32: a HandleTimeout that is at one of its four reads is never left
\* waiting: it takes a value that is there, or its deadline lets it go on
\* with the default.
HandleTimeoutNeverWaits == HandleTimeoutReading => ENABLED HandleTimeoutStep

\* C33: while the timer waits at its outer select the overlay shows the
\* timer's own remaining time.
OverlayMirrorsRemaining ==
    \A s \in Sessions :
        tk[s].pc = "select" => globalTimerOverlay.remaining = tk[s].remaining

\* C34: the timer's remaining time and the overlay's are never negative.
RemainingNeverNegative ==
    /\ globalTimerOverlay.remaining >= 0
    /\ \A s \in Sessions : tk[s].remaining >= 0

\* C35: while a timer is between its test of GLFW and the access to the
\* window that follows it, GLFW has not been terminated.
NoTerminateBetweenCheckAndAccess ==
    \A s \in Sessions : tk[s].pc = "queryWindow" => glfwInitialized

\* a step in which the timer of s leaves its wait for the confirmation or
\* its wait for the new duration
LeavesExtensionWait(s) ==
    /\ tk[s].pc \in {"awaitResume", "awaitDuration"}
    /\ tk'[s].pc \notin {"awaitResume", "awaitDuration"}

\* C39: a timer at its outer select is not paused; every step out of the
\* extension wait ends the goroutine or goes back to the select with
\* gamePaused cleared; and a tick taken at the select counts.
NotPausedAtOuterSelect ==
    /\ [](\A s \in Sessions : tk[s].pc = "select" => ~tk[s].gamePaused)
    /\ [][\A s \in Sessions :
             /\ LeavesExtensionWait(s)
                   => \/ tk'[s].pc = "exited"
                      \/ tk'[s].pc = "select" /\ ~tk'[s].gamePaused
             /\ (tk[s].pc = "select" /\ ev'.op = "tick" /\ ev'.s = s /\ tk'[s] # tk[s])
                   => tk'[s].remaining = tk[s].remaining - 1]_vars

\* C39 is reached: a timer that was paused at an expiry is back at its outer
\* select, with a new leg or with the default, and has counted a second of it.
CountsAgainAfterExtension ==
    \E s \in Sessions :
        /\ tk[s].pc = "select"
        /\ ~tk[s].gamePaused
        /\ payments > 0
        /\ ev.op = "tick" /\ ev.s = s
        /\ tk[s].remaining > 0

\* no broadcast is pending: no goroutine is inside SetState, Hub.run is at
\* its select and every message put into a connected client's send channel
\* was written to its connection
BroadcastsDelivered ==
    /\ \A k \in Callers : hub.call[k].pc = "idle"
    /\ hub.run.pc = "select"
    /\ \A c \in hub.clients : hub.send[c] = <<>>

\* C36: once every pending broadcast is delivered, the last state message
\* each connected client received is the server's current state, also when
\* two calls of SetState ran concurrently.
ClientsAgreeWithServer ==
    BroadcastsDelivered
        => \A c \in hub.clients :
              hub.writer[c] = "running" => hub.seen[c] = serverState

\* C38: the hub closes a client's send channel at most once and sends nothing
\* on a closed one; a client dropped for a full buffer leaves the client set
\* in the step that drops it; and the unregister of a client that is no
\* longer in the set changes nothing in the hub.
SendChannelClosedOnce ==
    /\ [](\A c \in HubClients :
             /\ hub.closes[c] <= 1
             /\ ~hub.panicked
             /\ hub.closed[c] => c \notin hub.clients)
    /\ [][\A c \in HubClients :
             /\ hub.closed[c] => Len(hub'.send[c]) <= Len(hub.send[c])
             /\ (c \in hub'.dropped /\ c \notin hub.dropped)
                   => c \notin hub'.clients /\ hub'.closed[c]
             /\ (hub.reader[c] = "unregister" /\ hub'.reader[c] = "done"
                    /\ c \notin hub.clients)
                   => /\ hub'.clients = hub.clients
                      /\ hub'.closed = hub.closed
                      /\ hub'.closes = hub.closes
                      /\ hub'.send = hub.send]_vars

\* C38 is reached: a client was dropped for a full buffer while another stayed
\* connected, and the dropped client's readPump has unregistered since.
DroppedThenUnregistered ==
    \E c \in HubClients :
        /\ c \in hub.dropped
        /\ hub.reader[c] = "done"
        /\ hub.closes[c] = 1
        /\ hub.clients # {}

\* the goroutine h takes the step
Moves(h) ==
    \E s \in Sessions :
        \/ h = TimerRoutine(s) /\ tk'[s] # tk[s]
        \/ h = EngineThread(s) /\ rg'[s] # rg[s]

\* the goroutines that may hold the overlay's lock
LockUsers == {TimerRoutine(s) : s \in Sessions} \cup {EngineThread(s) : s \in Sessions}

\* the next step of a goroutine inside one of the locked regions
LockedStep(s) ==
    \/ RunGameOverlayRemaining(s)
    \/ RunGameOverlayVisible(s)
    \/ RunGameOverlayUnlock(s)
    \/ DrawRead(s)
    \/ DrawRUnlock(s)
    \/ TimerOverlayStore(s)
    \/ TimerOverlayUnlock(s)

\* C37: every write of an overlay field is made by the goroutine holding the
\* write lock and every read on the render path by a goroutine holding a read
\* lock; and a goroutine holding the lock does no channel operation and never
\* waits: its next step is always possible and leaves every channel alone.
OverlayAccessUnderLock ==
    /\ [](\A s \in Sessions :
             /\ tk[s].pc \in StorePcs \cup UnlockPcs => mu.w = TimerRoutine(s)
             /\ rg[s] \in {"overlayRemaining", "overlayVisible", "overlayUnlock"}
                   => mu.w = EngineThread(s)
             /\ rg[s] \in {"drawRead", "drawRUnlock"} => EngineThread(s) \in mu.r
             /\ mu.w # NoHolder => mu.r = {}
             /\ (mu.w \in {TimerRoutine(s), EngineThread(s)} \/ EngineThread(s) \in mu.r)
                   => ENABLED LockedStep(s))
    /\ [][/\ globalTimerOverlay' # globalTimerOverlay
                => mu.w # NoHolder /\ mu' = mu /\ Moves(mu.w)
          /\ \A h \in LockUsers :
                ((mu.w = h \/ h \in mu.r) /\ Moves(h))
                   => UNCHANGED <<timerChan, resumeChan, doneChan, gameExitedChan,
                                  gameLoadedChan>>]_vars

\* C37 is reached: the timer goroutine holds the write lock for the write of
\* a paid leg while the frame loop is about to draw the overlay.
OverlayWriterHoldsLock ==
    \E s \in Sessions :
        /\ tk[s].pc = "durationStore"
        /\ mu.w = TimerRoutine(s)
        /\ rg[s] = "runLoop"
        /\ ~ENABLED DrawRLock(s)

====
